---- MODULE Spec2Model ----
(***************************************************************************)
(* Model of the tracky edge functions:                                     *)
(*   functions/api/raw.js    aggregation endpoint      (onRequestGet)      *)
(*   functions/api/proxy.js  single-target proxy       (onRequestGet)      *)
(*   batch proxy             (onRequest, src/unnamed/part_000)             *)
(*                                                                         *)
(* A JavaScript string is a sequence of UTF-16 code units (integers).  A   *)
(* negative element -n abbreviates a run of n filler characters 'z', so    *)
(* that bodies of half a megabyte stay small; no literal of the model      *)
(* holds a 'z'.                                                            *)
(***************************************************************************)
EXTENDS Integers, Sequences, FiniteSets, TLC

----------------------------------------------------------------------------
(* JavaScript string primitives                                            *)

\* one element's length in code units
UnitLen(c) == IF c < 0 THEN -c ELSE 1

RECURSIVE FlattenRange(_, _, _)
\* parts[lo] \o ... \o parts[hi], by halves
FlattenRange(parts, lo, hi) ==
    IF lo > hi THEN <<>>
    ELSE IF lo = hi THEN parts[lo]
    ELSE FlattenRange(parts, lo, (lo + hi) \div 2)
         \o FlattenRange(parts, (lo + hi) \div 2 + 1, hi)

\* the concatenation of a sequence of strings
Flatten(parts) == FlattenRange(parts, 1, Len(parts))

RECURSIVE LenRange(_, _, _)
\* the code units of s[lo..hi], by halves
LenRange(s, lo, hi) ==
    IF lo > hi THEN 0
    ELSE IF lo = hi THEN UnitLen(s[lo])
    ELSE LenRange(s, lo, (lo + hi) \div 2) + LenRange(s, (lo + hi) \div 2 + 1, hi)

\* String.prototype.length
StrLen(s) == LenRange(s, 1, Len(s))

\* s.substring(0, n): the longest whole prefix of at most n code units, and
\* of a run cut by n the part before the cut
Substring0(s, n) ==
    LET whole == CHOOSE k \in 0..Len(s) :
                    /\ LenRange(s, 1, k) <= n
                    /\ k < Len(s) => LenRange(s, 1, k + 1) > n
        left  == n - LenRange(s, 1, whole)
    IN  IF n <= 0 THEN <<>>
        ELSE IF whole < Len(s) /\ left > 0 THEN SubSeq(s, 1, whole) \o << -left >>
        ELSE SubSeq(s, 1, whole)

\* s.substring(from) / s.substring(from, to) on strings without runs, 0-based
SubstringFrom(s, from) ==
    IF from >= Len(s) THEN <<>> ELSE SubSeq(s, from + 1, Len(s))

SubstringRange(s, from, to) ==
    LET t == IF to > Len(s) THEN Len(s) ELSE to
    IN  IF from >= t THEN <<>> ELSE SubSeq(s, from + 1, t)

\* s.charCodeAt(i); NaN (index out of range) is -1
NaN == -1

CharCodeAt(s, i) == IF i < Len(s) THEN s[i + 1] ELSE NaN

\* s.startsWith(p)
StartsWith(s, p) == Len(s) >= Len(p) /\ SubSeq(s, 1, Len(p)) = p

\* s.endsWith(p)
EndsWith(s, p) == Len(s) >= Len(p) /\ SubSeq(s, Len(s) - Len(p) + 1, Len(s)) = p

\* s.includes(p)
Includes(s, p) ==
    \E i \in 1..(Len(s) - Len(p) + 1) : SubSeq(s, i, i + Len(p) - 1) = p

\* one code unit lower-cased (ASCII letters)
LowerUnit(c) == IF c >= 65 /\ c <= 90 THEN c + 32 ELSE c

\* s.toLowerCase()
ToLowerCase(s) == [i \in 1..Len(s) |-> LowerUnit(s[i])]

\* white space removed by trim(): space, tab, line feed, carriage return
IsSpace(c) == c \in {32, 9, 10, 13}

\* s.trim(): from the first to the last code unit that is not white space
Trim(s) ==
    LET keep == {i \in 1..Len(s) : ~IsSpace(s[i])}
    IN  IF keep = {} THEN <<>>
        ELSE SubSeq(s, CHOOSE i \in keep : \A j \in keep : i <= j,
                       CHOOSE i \in keep : \A j \in keep : i >= j)

\* the k-th smallest element of a set of numbers
Nth(set, k) == CHOOSE p \in set : Cardinality({q \in set : q < p}) = k - 1

\* s.split(c) for a one-unit separator c
Split(s, c) ==
    LET at == {i \in 1..Len(s) : s[i] = c}
        n  == Cardinality(at)
    IN  [k \in 1..(n + 1) |->
            SubSeq(s, IF k = 1 THEN 1 ELSE Nth(at, k - 1) + 1,
                      IF k = n + 1 THEN Len(s) ELSE Nth(at, k) - 1)]

\* parts.join(sep)
Join(parts, sep) ==
    Flatten([i \in 1..(2 * Len(parts) - 1) |->
                IF i % 2 = 1 THEN parts[(i + 1) \div 2] ELSE sep])

\* s.split(marker).join(rep) for a one-unit marker
ReplaceUnit(s, marker, rep) ==
    Flatten([i \in 1..Len(s) |-> IF s[i] = marker THEN rep ELSE <<s[i]>>])

RECURSIVE BitOr(_, _)
\* a | b on non-negative integers
BitOr(a, b) ==
    IF a = 0 THEN b
    ELSE IF b = 0 THEN a
    ELSE (IF a % 2 = 1 \/ b % 2 = 1 THEN 1 ELSE 0) + 2 * BitOr(a \div 2, b \div 2)

\* ToInt32 of a charCodeAt result: NaN becomes 0
ToInt(c) == IF c = NaN THEN 0 ELSE c

\* (hi << 8) | lo
ShiftOr(hi, lo) == BitOr(ToInt(hi) * 256, ToInt(lo))

\* String.fromCharCode(code): the code is taken modulo 2^16
FromCharCode(code) == code % 65536

----------------------------------------------------------------------------
(* Wire encoding of a configuration                                        *)

\* the escape / bypass marker byte
MarkerByte == 255

\* first private-use code unit used as a dictionary marker
MarkerBase == 57344

\* the Base64 character of a sextet
B64Char(v) ==
    IF v < 26 THEN 65 + v
    ELSE IF v < 52 THEN 97 + (v - 26)
    ELSE IF v < 62 THEN 48 + (v - 52)
    ELSE IF v = 62 THEN 43 ELSE 47

\* the sextet of a Base64 character, -1 for any other character
B64Val(c) ==
    IF c >= 65 /\ c <= 90 THEN c - 65
    ELSE IF c >= 97 /\ c <= 122 THEN c - 97 + 26
    ELSE IF c >= 48 /\ c <= 57 THEN c - 48 + 52
    ELSE IF c = 43 THEN 62
    ELSE IF c = 47 THEN 63 ELSE -1

\* the Base64 characters of one group of up to three bytes
Btoa3(b) ==
    IF Len(b) = 1
    THEN <<B64Char(b[1] \div 4), B64Char((b[1] % 4) * 16), 61, 61>>
    ELSE IF Len(b) = 2
    THEN <<B64Char(b[1] \div 4), B64Char((b[1] % 4) * 16 + b[2] \div 16),
           B64Char((b[2] % 16) * 4), 61>>
    ELSE <<B64Char(b[1] \div 4), B64Char((b[1] % 4) * 16 + b[2] \div 16),
           B64Char((b[2] % 16) * 4 + b[3] \div 64), B64Char(b[3] % 64)>>

\* s cut into groups of n elements, the last one shorter
Groups(s, n) ==
    [g \in 1..((Len(s) + n - 1) \div n) |->
        SubSeq(s, (g - 1) * n + 1, IF g * n > Len(s) THEN Len(s) ELSE g * n)]

\* btoa(bytes): Base64 of a string of code units <= 0xFF
Btoa(b) == LET g == Groups(b, 3) IN Flatten([k \in 1..Len(g) |-> Btoa3(g[k])])

\* the bytes of one group of up to four sextets
Atob4(v) ==
    IF Len(v) < 2 THEN <<>>
    ELSE IF Len(v) = 2 THEN <<v[1] * 4 + v[2] \div 16>>
    ELSE IF Len(v) = 3
    THEN <<v[1] * 4 + v[2] \div 16, (v[2] % 16) * 16 + v[3] \div 4>>
    ELSE <<v[1] * 4 + v[2] \div 16, (v[2] % 16) * 16 + v[3] \div 4,
           (v[3] % 4) * 64 + v[4]>>

\* the bytes of a string of sextets
AtobUnits(v) == LET g == Groups(v, 4) IN Flatten([k \in 1..Len(g) |-> Atob4(g[k])])

\* s without the code units satisfying Drop
SelectNot(s, Drop(_)) == SelectSeq(s, LAMBDA c : ~Drop(c))

\* the padding atob() strips: one or two trailing '=' of a string whose length
\* is a multiple of four
StripPadding(s) ==
    IF Len(s) % 4 = 0 /\ Len(s) > 0 /\ s[Len(s)] = 61
    THEN IF s[Len(s) - 1] = 61 THEN SubSeq(s, 1, Len(s) - 2)
         ELSE SubSeq(s, 1, Len(s) - 1)
    ELSE s

\* atob(s): [ok |-> FALSE] stands for the InvalidCharacterError it throws
Atob(s) ==
    LET t == StripPadding(SelectNot(s, IsSpace))
        v == [i \in 1..Len(t) |-> B64Val(t[i])]
    IN  IF Len(t) % 4 = 1 \/ \E i \in 1..Len(t) : v[i] < 0
        THEN [ok |-> FALSE, val |-> <<>>]
        ELSE [ok |-> TRUE, val |-> AtobUnits(v)]

\* encodedData.replace(/ /g, '+')
SpacesToPlus(s) == [i \in 1..Len(s) |-> IF s[i] = 32 THEN 43 ELSE s[i]]

\* URLSearchParams decodes a '+' of the query string as a space
QueryDecode(s) == [i \in 1..Len(s) |-> IF s[i] = 43 THEN 32 ELSE s[i]]

RECURSIVE EscapeAt(_, _)
\* the loop of latin1ToString takes position i (1-based) as the start of an
\* escape: it holds 0xFF, two more units follow, and the loop did not skip
\* it as the low or high byte of an escape started one or two units before
EscapeAt(str, i) ==
    /\ i >= 1
    /\ str[i] = MarkerByte
    /\ i + 2 <= Len(str)
    /\ ~EscapeAt(str, i - 1)
    /\ ~EscapeAt(str, i - 2)

\* escape restoration: 0xFF low high becomes the code unit (high << 8) | low
latin1ToString(str) ==
    Flatten([i \in 1..Len(str) |->
                IF EscapeAt(str, i) THEN <<FromCharCode(ShiftOr(str[i + 2], str[i + 1]))>>
                ELSE IF EscapeAt(str, i - 1) \/ EscapeAt(str, i - 2) THEN <<>>
                ELSE <<str[i]>>])

RECURSIVE ReadDict(_, _, _)
\* the loop reading dictCount entries from position pos: the entries and the
\* position after them.  Once pos is past the end every further entry is
\* empty and so is the body, so the loop is cut short there.
ReadDict(encoded, pos, dictCount) ==
    IF dictCount <= 0 THEN [dictionary |-> <<>>, pos |-> pos]
    ELSE IF pos >= Len(encoded) THEN [dictionary |-> <<>>, pos |-> Len(encoded)]
    ELSE LET len   == ShiftOr(CharCodeAt(encoded, pos), CharCodeAt(encoded, pos + 1))
             entry == SubstringRange(encoded, pos + 2, pos + 2 + len)
             rest  == ReadDict(encoded, pos + 2 + len, dictCount - 1)
         IN  [dictionary |-> <<entry>> \o rest.dictionary, pos |-> rest.pos]

RECURSIVE ExpandLowFirst(_, _, _)
\* (variant) markers expanded from index 0 upwards
ExpandLowFirst(result, dictionary, i) ==
    IF i >= Len(dictionary) THEN result
    ELSE ExpandLowFirst(ReplaceUnit(result, FromCharCode(MarkerBase + i), dictionary[i + 1]),
                        dictionary, i + 1)

ExpandAscending(result, dictionary) == ExpandLowFirst(result, dictionary, 0)

RECURSIVE ExpandHighFirst(_, _, _)
\* the loop "for (i = length - 1; i >= 0; i--)": i entries are still to expand
ExpandHighFirst(result, dictionary, i) ==
    IF i = 0 THEN result
    ELSE ExpandHighFirst(ReplaceUnit(result, FromCharCode(MarkerBase + i - 1), dictionary[i]),
                         dictionary, i - 1)

\* markers replaced by their entries, highest index first
Expand(result, dictionary) == ExpandHighFirst(result, dictionary, Len(dictionary))

\* decompress(encoded)
decompress(encoded) ==
    IF CharCodeAt(encoded, 0) = MarkerByte THEN SubstringFrom(encoded, 1)
    ELSE LET rd == ReadDict(encoded, 1, CharCodeAt(encoded, 0))
         IN  Expand(SubstringFrom(encoded, rd.pos), rd.dictionary)

----------------------------------------------------------------------------
(* The encoder of the wire format.  Its code is the front end's; it is     *)
(* modelled from the wire format's description.                            *)

RECURSIVE MatchAt(_, _, _)
\* a left-to-right scan replaces the occurrence of pat at position i: pat
\* stands there and no replaced occurrence before it overlaps it
MatchAt(s, pat, i) ==
    /\ i >= 1
    /\ i + Len(pat) - 1 <= Len(s)
    /\ SubSeq(s, i, i + Len(pat) - 1) = pat
    /\ \A j \in (i - Len(pat) + 1)..(i - 1) : ~MatchAt(s, pat, j)

\* every occurrence of the non-empty text pat in s replaced by rep, left to right
ReplaceAll(s, pat, rep) ==
    Flatten([i \in 1..Len(s) |->
                IF MatchAt(s, pat, i) THEN rep
                ELSE IF \E j \in (i - Len(pat) + 1)..(i - 1) : MatchAt(s, pat, j) THEN <<>>
                ELSE <<s[i]>>])

\* a code unit above 0xFF becomes 0xFF, low byte, high byte
LatinEscape(s) ==
    Flatten([i \in 1..Len(s) |->
                IF s[i] > 255 THEN <<MarkerByte, s[i] % 256, s[i] \div 256>>
                ELSE <<s[i]>>])

\* the marker of dictionary entry i (0-based)
Marker(i) == MarkerBase + i

RECURSIVE BuildDict(_, _, _, _)
\* Entry i is pattern i as it stands in the body once the earlier patterns
\* are replaced by their markers; the body then has entry i replaced by
\* marker i.  With rewriteEarlier the encoder also replaces the new entry
\* inside the entries chosen before it, which then hold a marker of higher
\* index.
BuildDict(patterns, dictionary, body, rewriteEarlier) ==
    IF patterns = <<>> THEN [dictionary |-> dictionary, body |-> body]
    ELSE LET i     == Len(dictionary)
             entry == Head(patterns)
             m     == <<Marker(i)>>
             prev  == IF rewriteEarlier
                      THEN [j \in 1..i |-> ReplaceAll(dictionary[j], entry, m)]
                      ELSE dictionary
         IN  BuildDict([k \in 1..(Len(patterns) - 1) |->
                            ReplaceAll(patterns[k + 1], entry, m)],
                       Append(prev, entry), ReplaceAll(body, entry, m), rewriteEarlier)

RECURSIVE DictBytes(_)
\* each entry as a 2-byte big-endian length and its text
DictBytes(dictionary) ==
    IF dictionary = <<>> THEN <<>>
    ELSE <<Len(Head(dictionary)) \div 256, Len(Head(dictionary)) % 256>>
         \o Head(dictionary) \o DictBytes(Tail(dictionary))

\* the dictionary and body an encoding plan gives for the text json
Packed(json, plan) == BuildDict(plan.patterns, <<>>, json, plan.rewriteEarlier)

\* Compress: the bypass form, or the count byte, the entries and the body
Compress(json, plan) ==
    IF plan.bypass THEN <<MarkerByte>> \o json
    ELSE LET p == Packed(json, plan)
         IN  <<Len(p.dictionary)>> \o DictBytes(p.dictionary) \o p.body

\* a JSON string literal of a text without quotes, backslashes or controls
Quoted(str) == <<34>> \o str \o <<34>>

\* a JSON array of string literals
JsonArray(list) == <<91>> \o Join([i \in 1..Len(list) |-> Quoted(list[i])], <<44>>) \o <<93>>

\* JSON.stringify({sources, manual, doubleNewline})
Stringify(config) ==
    <<123, 34, 115, 111, 117, 114, 99, 101, 115, 34, 58>>            \* {"sources":
    \o JsonArray(config.sources)
    \o <<44, 34, 109, 97, 110, 117, 97, 108, 34, 58>>                \* ,"manual":
    \o JsonArray(config.manual)
    \o <<44, 34, 100, 111, 117, 98, 108, 101, 78, 101, 119, 108, 105, 110, 101, 34, 58>>
    \o (IF config.doubleNewline THEN <<116, 114, 117, 101>>
        ELSE <<102, 97, 108, 115, 101>>)
    \o <<125>>

\* the payload of a configuration: Base64(LatinEscape(Compress(JSON)))
Encode(config, plan) == Btoa(LatinEscape(Compress(Stringify(config), plan)))

----------------------------------------------------------------------------
(* Inputs                                                                  *)

\* per-fetch byte cap of the proxies, and of the aggregation endpoint
MAX_SIZE_BYTES == 524288

\* fan-out limit
MAX_SOURCES == 20

\* deadline of one fetch: aggregation endpoint, proxies
RAW_TIMEOUT_MS == 4000

PROXY_TIMEOUT_MS == 5000

\* bounds of the model
MaxDict == 2

Over == 1

\* source / target strings
U_A       == <<104, 116, 116, 112, 58, 47, 47, 97, 46, 105, 111>>                 \* http://a.io
U_B       == <<104, 116, 116, 112, 115, 58, 47, 47, 98, 46, 105, 111>>            \* https://b.io
U_FTP     == <<102, 116, 112, 58, 47, 47, 97, 46, 105, 111>>                      \* ftp://a.io
U_BAD     == <<110, 111, 116, 32, 97, 32, 117, 114, 108>>                         \* not a url
U_127     == <<104, 116, 116, 112, 58, 47, 47, 49, 50, 55, 46, 48, 46, 48, 46, 49>>          \* http://127.0.0.1
U_10      == <<104, 116, 116, 112, 58, 47, 47, 49, 48, 46, 48, 46, 48, 46, 53>>              \* http://10.0.0.5
U_192     == <<104, 116, 116, 112, 58, 47, 47, 49, 57, 50, 46, 49, 54, 56, 46, 49, 46, 49>>  \* http://192.168.1.1
U_172_16  == <<104, 116, 116, 112, 58, 47, 47, 49, 55, 50, 46, 49, 54, 46, 48, 46, 49>>      \* http://172.16.0.1
U_172_31  == <<104, 116, 116, 112, 58, 47, 47, 49, 55, 50, 46, 51, 49, 46, 50, 53, 53, 46, 50, 53, 53>> \* http://172.31.255.255
U_LOCAL   == <<104, 116, 116, 112, 58, 47, 47, 108, 111, 99, 97, 108, 104, 111, 115, 116>>   \* http://localhost
U_LOCALUP == <<72, 84, 84, 80, 58, 47, 47, 76, 111, 99, 97, 108, 72, 111, 115, 116>>         \* HTTP://LocalHost
U_DOTLOC  == <<104, 116, 116, 112, 58, 47, 47, 102, 111, 111, 46, 108, 111, 99, 97, 108>>    \* http://foo.local
U_V6      == <<104, 116, 116, 112, 58, 47, 47, 91, 58, 58, 49, 93>>                          \* http://[::1]
U_ZERO    == <<104, 116, 116, 112, 58, 47, 47, 48, 46, 48, 46, 48, 46, 48>>                  \* http://0.0.0.0
U_172_15  == <<104, 116, 116, 112, 58, 47, 47, 49, 55, 50, 46, 49, 53, 46, 48, 46, 49>>      \* http://172.15.0.1
U_172_32  == <<104, 116, 116, 112, 58, 47, 47, 49, 55, 50, 46, 51, 50, 46, 48, 46, 49>>      \* http://172.32.0.1
U_SLOW    == <<104, 116, 116, 112, 58, 47, 47, 99, 46, 105, 111>>                           \* http://c.io
U_PROTO   == <<95, 95, 112, 114, 111, 116, 111, 95, 95>>                                     \* __proto__

\* tracker lines
T_UDP   == <<117, 100, 112, 58, 47, 47, 97>>             \* udp://a
T_WSS   == <<119, 115, 115, 58, 47, 47, 98>>             \* wss://b
T_HTTP  == <<72, 84, 84, 80, 58, 47, 47, 99>>            \* HTTP://c
T_HTTPS == <<104, 116, 116, 112, 115, 58, 47, 47, 100>>  \* https://d
T_FTP   == <<102, 116, 112, 58, 47, 47, 120>>            \* ftp://x
T_HASH  == <<35, 117, 100, 112, 58, 47, 47, 101>>        \* #udp://e
T_PAD   == <<32, 117, 100, 112, 58, 47, 47, 97, 32>>     \* " udp://a "
T_TEXT  == <<110, 111, 116, 32, 97, 32, 117, 114, 108>>  \* not a url

\* the hostnames the specification names as private, and its two boundary hosts
PrivateUrls == {U_127, U_10, U_192, U_172_16, U_172_31, U_LOCAL, U_LOCALUP,
                U_DOTLOC, U_V6, U_ZERO}

BoundaryUrls == {U_172_15, U_172_32}

AllUrls == PrivateUrls \cup BoundaryUrls \cup {U_A, U_B, U_SLOW, U_FTP, U_BAD}

\* the targets of which every pair is tried
CoreUrls == {U_A, U_B, U_172_16, U_BAD}

\* n copies of x
Repeat(x, n) == [i \in 1..n |-> x]

\* lists at and above the fan-out limit
LongLists == {Repeat(U_SLOW, n) : n \in MAX_SOURCES..(MAX_SOURCES + Over)}

ShortLists == {<<u>> : u \in AllUrls} \cup {<<u, v>> : u, v \in CoreUrls} \cup {<<U_SLOW, U_B>>}

ManualLists == {<<>>, <<T_UDP>>, <<T_PAD, T_FTP, T_WSS>>, <<T_HASH, T_HTTP, T_TEXT, T_UDP>>}

\* fetched bodies
BodyA     == T_UDP \o <<10>> \o T_WSS

BodyB     == T_PAD \o <<10>> \o T_HASH \o <<10>> \o T_FTP \o <<13, 10>> \o T_HTTP \o <<10, 10>> \o T_TEXT

BodyHttps == T_HTTPS

BodyJunk  == T_TEXT

BodyBlank == <<32, 10>>

\* a list followed by a comment line that fills the body up to n code units
Filled(n) == T_WSS \o <<10, 35>> \o << -(n - Len(T_WSS) - 2) >>

Bodies == {BodyA, BodyB, BodyHttps, BodyJunk, BodyBlank, <<>>,
           Filled(MAX_SIZE_BYTES), Filled(MAX_SIZE_BYTES + 1)}

\* configurations and encoding plans
CodecConfigs ==
    {[sources |-> s, manual |-> m, doubleNewline |-> d] :
        s \in {<<>>, <<<<97>>>>, <<<<255>>>>, <<<<256>>>>},
        m \in {<<>>, <<T_UDP>>, <<<<MarkerBase>>>>},
        d \in BOOLEAN}

HandlerConfigs ==
    {[sources |-> s, manual |-> m, doubleNewline |-> d] :
        s \in {<<>>, <<U_A>>, <<U_A, U_B>>, <<U_A, U_SLOW>>} \cup LongLists,
        m \in ManualLists,
        d \in BOOLEAN}

ConfigUniverse == CodecConfigs \cup HandlerConfigs

Patterns == {<<34, 58, 91>>, <<115, 34, 58, 91>>}     \* ":[   s":[

PatternLists == UNION {[1..k -> Patterns] : k \in 0..MaxDict}

BypassPlan == [bypass |-> TRUE, patterns |-> <<>>, rewriteEarlier |-> FALSE]

Plans == {BypassPlan} \cup
         {[bypass |-> FALSE, patterns |-> pl, rewriteEarlier |-> b] :
             pl \in PatternLists, b \in BOOLEAN}

\* JSON.parse on the texts JSON.stringify gives for the configurations of
\* the model; any other text is a SyntaxError
JsonTable == {<<Stringify(c), c>> : c \in ConfigUniverse}

\* the outcome of a step that threw
Thrown == [ok |-> FALSE, val |-> [sources |-> <<>>, manual |-> <<>>, doubleNewline |-> FALSE]]

\* a JSON number as an element of a list: a value that is no string
JsNumber(n) == <<65536 + n>>

\* typeof v === 'string', of the elements of sources and manual
IsString(v) == \A k \in DOMAIN v : v[k] < 65536

\* the value of a property of the parsed JSON: undefined or a scalar, or an array
NotArray == [array |-> FALSE, items |-> <<>>, true |-> FALSE]

IsTrue == [NotArray EXCEPT !.true = TRUE]

ArrayOf(items) == [NotArray EXCEPT !.array = TRUE, !.items = items]

\* JSON texts that are no Configuration, with the value JSON.parse gives:
\* nullish, or the values of the three properties read from it
LooseTable ==
    {<< <<110, 117, 108, 108>>,                                                  \* null
        [nullish |-> TRUE, sources |-> NotArray, manual |-> NotArray, doubleNewline |-> NotArray] >>,
     << <<123, 125>>,                                                            \* {}
        [nullish |-> FALSE, sources |-> NotArray, manual |-> NotArray, doubleNewline |-> NotArray] >>,
     << <<91, 93>>,                                                              \* []
        [nullish |-> FALSE, sources |-> NotArray, manual |-> NotArray, doubleNewline |-> NotArray] >>,
     \* {"sources":"http://a.io","manual":7,"doubleNewline":"true"}
     << <<123, 34, 115, 111, 117, 114, 99, 101, 115, 34, 58, 34, 104, 116, 116, 112, 58, 47, 47,
          97, 46, 105, 111, 34, 44, 34, 109, 97, 110, 117, 97, 108, 34, 58, 55, 44, 34, 100, 111,
          117, 98, 108, 101, 78, 101, 119, 108, 105, 110, 101, 34, 58, 34, 116, 114, 117, 101,
          34, 125>>,
        [nullish |-> FALSE, sources |-> NotArray, manual |-> NotArray, doubleNewline |-> NotArray] >>,
     \* {"sources":[7],"manual":["udp://a"],"doubleNewline":1}
     << <<123, 34, 115, 111, 117, 114, 99, 101, 115, 34, 58, 91, 55, 93, 44, 34, 109, 97, 110,
          117, 97, 108, 34, 58, 91, 34, 117, 100, 112, 58, 47, 47, 97, 34, 93, 44, 34, 100, 111,
          117, 98, 108, 101, 78, 101, 119, 108, 105, 110, 101, 34, 58, 49, 125>>,
        [nullish |-> FALSE, sources |-> ArrayOf(<<JsNumber(7)>>), manual |-> ArrayOf(<<T_UDP>>),
         doubleNewline |-> NotArray] >>,
     \* {"manual":[7]}
     << <<123, 34, 109, 97, 110, 117, 97, 108, 34, 58, 91, 55, 93, 125>>,
        [nullish |-> FALSE, sources |-> NotArray, manual |-> ArrayOf(<<JsNumber(7)>>),
         doubleNewline |-> NotArray] >>}

LooseTexts == {e[1] : e \in LooseTable}

\* lines 32 to 37 on the value JSON.parse gave: reading a property of null
\* throws, a property that is no array gives the empty list, doubleNewline
\* counts when it is true itself
Extract(config) ==
    IF config.nullish THEN Thrown
    ELSE [ok |-> TRUE,
          val |-> [sources |-> IF config.sources.array THEN config.sources.items ELSE <<>>,
                   manual |-> IF config.manual.array THEN config.manual.items ELSE <<>>,
                   doubleNewline |-> config.doubleNewline.true]]

JSONParse(text) ==
    IF \E e \in JsonTable : e[1] = text
    THEN [ok |-> TRUE, val |-> (CHOOSE e \in JsonTable : e[1] = text)[2]]
    ELSE IF \E e \in LooseTable : e[1] = text
    THEN Extract((CHOOSE e \in LooseTable : e[1] = text)[2])
    ELSE Thrown

\* lines 27-30 of the aggregation endpoint: the try block up to JSON.parse
DecodeConfig(encodedData) ==
    LET decodedData == Atob(SpacesToPlus(encodedData))
    IN  IF ~decodedData.ok THEN Thrown
        ELSE JSONParse(decompress(latin1ToString(decodedData.val)))

----------------------------------------------------------------------------
(* Target validation                                                       *)

\* the position of the first code unit c of s, 0 when there is none
IndexOf(s, c) ==
    IF \E i \in 1..Len(s) : s[i] = c
    THEN CHOOSE i \in 1..Len(s) : s[i] = c /\ \A j \in 1..(i - 1) : s[j] # c
    ELSE 0

IsLetter(c) == LowerUnit(c) >= 97 /\ LowerUnit(c) <= 122

\* new URL(str) on strings of the shape scheme://host[/path]; [ok |-> FALSE]
\* stands for the TypeError thrown on any other string
ParseURL(str) ==
    LET colon  == IndexOf(str, 58)
        scheme == ToLowerCase(SubSeq(str, 1, colon - 1))
        rest   == SubSeq(str, colon + 1, Len(str))
        after  == SubSeq(rest, 3, Len(rest))
        slash  == IndexOf(after, 47)
        host   == IF slash = 0 THEN after ELSE SubSeq(after, 1, slash - 1)
        path   == IF slash = 0 THEN <<47>> ELSE SubSeq(after, slash, Len(after))
        bad    == [ok |-> FALSE, protocol |-> <<>>, hostname |-> <<>>, href |-> <<>>]
    IN  IF colon <= 1 THEN bad
        ELSE IF \E i \in 1..Len(scheme) : ~IsLetter(scheme[i]) THEN bad
        ELSE IF ~StartsWith(rest, <<47, 47>>) \/ host = <<>> THEN bad
        ELSE [ok |-> TRUE, protocol |-> scheme \o <<58>>, hostname |-> ToLowerCase(host),
              href |-> scheme \o <<58, 47, 47>> \o ToLowerCase(host) \o path]

\* ['http:', 'https:'].includes(protocol)
AllowedProtocol(protocol) ==
    protocol \in {<<104, 116, 116, 112, 58>>, <<104, 116, 116, 112, 115, 58>>}

\* /^127\.|^10\.|^192\.168\.|^0\.|::1/
LoopbackOrPrivatePrefix(hostname) ==
    \/ StartsWith(hostname, <<49, 50, 55, 46>>)
    \/ StartsWith(hostname, <<49, 48, 46>>)
    \/ StartsWith(hostname, <<49, 57, 50, 46, 49, 54, 56, 46>>)
    \/ StartsWith(hostname, <<48, 46>>)
    \/ Includes(hostname, <<58, 58, 49>>)

\* /^172\.(1[6-9]|2[0-9]|3[0-1])\./
Private172(hostname) ==
    /\ StartsWith(hostname, <<49, 55, 50, 46>>)
    /\ Len(hostname) >= 7
    /\ \/ hostname[5] = 49 /\ hostname[6] \in 54..57
       \/ hostname[5] = 50 /\ hostname[6] \in 48..57
       \/ hostname[5] = 51 /\ hostname[6] \in 48..49
    /\ hostname[7] = 46

IsLocalhost(hostname) == hostname = <<108, 111, 99, 97, 108, 104, 111, 115, 116>>

EndsWithDotLocal(hostname) == EndsWith(hostname, <<46, 108, 111, 99, 97, 108>>)

\* the security check of safeFetchSource
RawBlocked(hostname) == LoopbackOrPrivatePrefix(hostname) \/ IsLocalhost(hostname)

\* isPrivate of the batch proxy
BatchIsPrivate(hostname) ==
    \/ IsLocalhost(hostname)
    \/ EndsWithDotLocal(hostname)
    \/ LoopbackOrPrivatePrefix(hostname)
    \/ Private172(hostname)

\* isPrivate of the single-target proxy
SingleIsPrivate(hostname) ==
    \/ IsLocalhost(hostname)
    \/ EndsWithDotLocal(hostname)
    \/ StartsWith(hostname, <<49, 50, 55, 46>>)
    \/ StartsWith(hostname, <<49, 48, 46>>)
    \/ StartsWith(hostname, <<49, 57, 50, 46, 49, 54, 56, 46>>)
    \/ Private172(hostname)
    \/ StartsWith(hostname, <<48, 46>>)
    \/ Includes(hostname, <<58, 58, 49>>)

----------------------------------------------------------------------------
(* Aggregation                                                             *)

\* the elements of a sequence
Range(f) == {f[i] : i \in DOMAIN f}

\* Set.prototype.add on an insertion-ordered set kept as a sequence
SetAddAlways(set, x) == Append(set, x)

SetAdd(set, x) == IF x \in Range(set) THEN set ELSE Append(set, x)

\* /^(udp|http|https|wss):\/\//i.test(clean)
SchemePrefixes ==
    {<<117, 100, 112, 58, 47, 47>>, <<104, 116, 116, 112, 58, 47, 47>>,
     <<104, 116, 116, 112, 115, 58, 47, 47>>, <<119, 115, 115, 58, 47, 47>>}

TrackerScheme(clean) == \E p \in SchemePrefixes : StartsWith(ToLowerCase(clean), p)

\* cleanAndAdd(line, set)
cleanAndAdd(line, set) ==
    LET clean == Trim(line)
    IN  IF clean = <<>> \/ StartsWith(clean, <<35>>) THEN set
        ELSE IF TrackerScheme(clean) THEN SetAdd(set, clean)
        ELSE set

RECURSIVE AddAll(_, _)
\* lines.forEach(line => cleanAndAdd(line, set))
AddAll(lines, set) ==
    IF lines = <<>> THEN set ELSE AddAll(Tail(lines), cleanAndAdd(Head(lines), set))

RECURSIVE AddBodies(_, _)
\* results.forEach: a null or empty result is skipped, any other is split
\* into lines
AddBodies(results, set) ==
    IF results = <<>> THEN set
    ELSE AddBodies(Tail(results),
                   IF Head(results).kind # "ok" \/ Head(results).text = <<>> THEN set
                   ELSE AddAll(Split(Head(results).text, 10), set))

\* step 3 of the aggregation endpoint
Aggregate(manual, results) == AddBodies(results, AddAll(manual, <<>>))

----------------------------------------------------------------------------
(* Requests and results                                                    *)

\* a query parameter or header: searchParams.get / headers.get give null
\* when it is absent
Absent == [has |-> FALSE, val |-> <<>>]

Given(v) == [has |-> TRUE, val |-> v]

\* the truthiness test "if (param)": present and not the empty string
Truthy(p) == p.has /\ p.val # <<>>

\* the origin the functions are served from
OwnOrigin == <<104, 116, 116, 112, 115, 58, 47, 47, 116, 46, 100, 101, 118>>     \* https://t.dev

NoRequest == [endpoint |-> "none", method |-> "GET", url |-> <<>>,
              data |-> Absent, urls |-> Absent, target |-> Absent,
              post |-> [kind |-> "none", list |-> <<>>],
              origin |-> Absent, referer |-> Absent]

\* request.url of the aggregation endpoint
RawUrl(name, value) ==
    OwnOrigin \o <<47, 97, 112, 105, 47, 114, 97, 119>>                       \* /api/raw
    \o (IF name = "data" THEN <<63, 100, 97, 116, 97, 61>> \o value           \* ?data=
        ELSE IF name = "urls" THEN <<63, 117, 114, 108, 115, 61>> \o value    \* ?urls=
        ELSE <<>>)

\* aggregation requests: ?data=<payload>, ?urls=<comma separated list>, neither
RawDataRequests ==
    {[NoRequest EXCEPT !.endpoint = "raw", !.data = Given(Encode(c, p)),
                       !.url = RawUrl("data", Encode(c, p))] :
        c \in HandlerConfigs,
        p \in {BypassPlan,
               [bypass |-> FALSE, patterns |-> <<>>, rewriteEarlier |-> FALSE],
               [bypass |-> FALSE, patterns |-> << <<34, 58, 91>> >>, rewriteEarlier |-> FALSE]}}

\* payloads that encode no Configuration: JSON texts of other shapes and a
\* text that is no JSON, each in the dictionary form without entries, and a
\* string that is no Base64
LoosePayloads ==
    {Btoa(LatinEscape(Compress(t, [bypass |-> FALSE, patterns |-> <<>>, rewriteEarlier |-> FALSE]))) :
        t \in LooseTexts \cup {<<91, 34>>}}
    \cup {<<37, 37>>}

RawLooseRequests ==
    {[NoRequest EXCEPT !.endpoint = "raw", !.data = Given(d), !.url = RawUrl("data", d)] :
        d \in LoosePayloads}

RawUrlsRequests ==
    {[NoRequest EXCEPT !.endpoint = "raw", !.urls = Given(Join(l, <<44>>)),
                       !.url = RawUrl("urls", Join(l, <<44>>))] :
        l \in ShortLists \cup LongLists}

RawRequests ==
    RawDataRequests \cup RawLooseRequests \cup RawUrlsRequests
    \cup {[NoRequest EXCEPT !.endpoint = "raw", !.url = RawUrl("none", <<>>)]}

\* the outcome of one target: null / text of safeFetchSource, the result
\* object of the batch proxy
NoResult == [kind |-> "none", text |-> <<>>, error |-> "", status |-> 0]

NullResult == [NoResult EXCEPT !.kind = "null"]

TextResult(text) == [NoResult EXCEPT !.kind = "ok", !.text = text]

ErrorResult(error) == [NoResult EXCEPT !.kind = "error", !.error = error]

StatusResult(status) == [NoResult EXCEPT !.kind = "status", !.status = status]

\* one element of the fan-out: the async callback of sources.map / targets.map;
\* body is the text the upstream sent, once it is read; ord tells the place
\* of the callback among those of its request that returned after an await
\* (0 for one that returned without suspending)
NoFetch == [url |-> <<>>, st |-> "settled", timer |-> "none", deadline |-> 0, id |-> 0,
            ord |-> 0, body |-> Absent, result |-> NoResult]

\* a callback that returned before its fetch
SettledFetch(url, result) == [NoFetch EXCEPT !.url = url, !.result = result]

\* a callback suspended in "await fetch(...)" with its timer set
PendingFetch(url, deadline, id) ==
    [NoFetch EXCEPT !.url = url, !.st = "headers", !.timer = "armed",
                    !.deadline = deadline, !.id = id]

NoResponse == [status |-> 0, error |-> "", text |-> <<>>, map |-> {}, at |-> 0]

\* upstream status lines
UpstreamStatuses == {200, 404}

\* response.ok
IsOk(status) == status >= 200 /\ status <= 299

\* the host of which no answer ever comes
Silent(url) == url = U_SLOW

RECURSIVE Dec(_)
\* a number in a template literal
Dec(n) == IF n < 10 THEN <<48 + n>> ELSE Dec(n \div 10) \o <<48 + (n % 10)>>

----------------------------------------------------------------------------
(* State                                                                   *)

VARIABLES
    codec,            \* the wire encoding taken one stage at a time
    reqs,             \* the requests being handled
    request,          \* request[r]: the inbound request
    pc,               \* pc[r]: "start", "fetching" (suspended in Promise.all / await), "done"
    sources,          \* sources[r]: sources (aggregation endpoint), targets (proxies)
    manual,           \* manual[r]
    useDoubleNewline, \* useDoubleNewline[r]
    debugLogs,        \* debugLogs[r]
    fetches,          \* fetches[r][i]: the callback of the i-th source / target
    uniqueTrackers,   \* uniqueTrackers[r]: the insertion-ordered set
    response,         \* response[r]: the Response returned, status 0 while there is none
    issued,           \* every outbound fetch() call made so far, in order
    timers,           \* number of timers set so far (timer ids)
    now               \* the clock, in milliseconds

vars == <<codec, reqs, request, pc, sources, manual, useDoubleNewline, debugLogs,
          fetches, uniqueTrackers, response, issued, timers, now>>

handlerVars == <<reqs, request, pc, sources, manual, useDoubleNewline, debugLogs,
                 fetches, uniqueTrackers, response, issued, timers, now>>

\* no request at all: the state of the handlers while the codec runs
NoHandlers ==
    /\ reqs = {}
    /\ request = <<>> /\ pc = <<>> /\ sources = <<>> /\ manual = <<>>
    /\ useDoubleNewline = <<>> /\ debugLogs = <<>> /\ fetches = <<>>
    /\ uniqueTrackers = <<>> /\ response = <<>>
    /\ issued = <<>> /\ timers = 0 /\ now = 0

----------------------------------------------------------------------------
(* Fan-out, timers and the clock: what the three handlers share            *)

\* the fetches a list of targets gives, valid[i] telling whether target i
\* passes the checks before fetch(): such a target is fetched (its timer
\* set timeout ms from t, timer ids counted from base), any other has
\* returned reject[i] already
CountIssued(valid, i) == Cardinality({j \in 1..i : valid[j]})

FanOut(list, valid, reject, timeout, t, base) ==
    [i \in 1..Len(list) |->
        IF valid[i]
        THEN PendingFetch(list[i], t + timeout, base + CountIssued(valid, i))
        ELSE SettledFetch(list[i], reject[i])]

\* the fetch() calls of a fan-out, in call order
IssuedBy(r, list, valid) ==
    SelectSeq([i \in 1..Len(list) |->
                  [req |-> r, idx |-> i, url |-> list[i],
                   hostname |-> ParseURL(list[i]).hostname]],
              LAMBDA e : valid[e.idx])

\* every callback of request r has returned: Promise.all resolves
AllSettled(r) == \A i \in DOMAIN fetches[r] : fetches[r][i].st = "settled"

\* the timers set and neither cleared nor fired
ArmedTimers ==
    {<<r, i>> \in UNION {{r} \X DOMAIN fetches[r] : r \in reqs} :
        fetches[r][i].timer = "armed"}

\* timer <<r, i>> is the one to fire now: it is due, and no timer set
\* before it is still armed and due
NextTimer(r, i) ==
    /\ <<r, i>> \in ArmedTimers
    /\ fetches[r][i].deadline <= now
    /\ \A t \in ArmedTimers :
          fetches[t[1]][t[2]].deadline <= now => fetches[t[1]][t[2]].id >= fetches[r][i].id

\* the fetch of callback i of request r set to f; a callback that returns
\* takes the next place in the order of completion
SetFetch(r, i, f) ==
    fetches' = [fetches EXCEPT ![r][i] =
        IF f.st = "settled" /\ fetches[r][i].st # "settled"
        THEN [f EXCEPT !.ord = 1 + Cardinality({j \in DOMAIN fetches[r] : fetches[r][j].ord > 0})]
        ELSE f]

\* request r answered with the Response resp
Respond(r, resp) ==
    /\ response' = [response EXCEPT ![r] = [resp EXCEPT !.at = now]]
    /\ pc' = [pc EXCEPT ![r] = "done"]

\* time passes up to the deadline of the earliest armed timer
Advance ==
    /\ ArmedTimers # {}
    /\ \A t \in ArmedTimers : fetches[t[1]][t[2]].deadline > now
    /\ now' = CHOOSE d \in {fetches[t[1]][t[2]].deadline : t \in ArmedTimers} :
                  \A t \in ArmedTimers : fetches[t[1]][t[2]].deadline >= d
    /\ UNCHANGED <<codec, reqs, request, pc, sources, manual, useDoubleNewline,
                   debugLogs, fetches, uniqueTrackers, response, issued, timers>>

\* a timer fires after its callback has returned through the catch block:
\* controller.abort() finds nothing to abort
TimerLapse(r, i) ==
    /\ NextTimer(r, i)
    /\ fetches[r][i].st = "settled"
    /\ SetFetch(r, i, [fetches[r][i] EXCEPT !.timer = "fired"])
    /\ UNCHANGED <<codec, reqs, request, pc, sources, manual, useDoubleNewline,
                   debugLogs, uniqueTrackers, response, issued, timers, now>>

----------------------------------------------------------------------------
(* Aggregation endpoint: functions/api/raw.js                              *)

DEBUG == TRUE

\* debugLogs.push(line) under "if (DEBUG)"
Log(line) == IF DEBUG THEN <<line>> ELSE <<>>

DbgRequestUrl(url) ==
    <<91, 68, 69, 66, 85, 71, 93, 32, 82, 101, 113, 117, 101, 115, 116, 32, 85, 82, 76, 58, 32>> \o url

DbgBase64Mode ==
    <<91, 68, 69, 66, 85, 71, 93, 32, 85, 115, 105, 110, 103, 32, 66, 97, 115, 101, 54, 52, 32,
      99, 111, 110, 102, 105, 103, 32, 109, 111, 100, 101>>

DbgSources(n, m) ==
    <<91, 68, 69, 66, 85, 71, 93, 32, 83, 111, 117, 114, 99, 101, 115, 58, 32>> \o Dec(n)
    \o <<44, 32, 77, 97, 110, 117, 97, 108, 32, 116, 114, 97, 99, 107, 101, 114, 115, 58, 32>> \o Dec(m)

DbgDoubleNewline ==
    <<91, 68, 69, 66, 85, 71, 93, 32, 68, 111, 117, 98, 108, 101, 32, 110, 101, 119, 108, 105,
      110, 101, 32, 101, 110, 97, 98, 108, 101, 100>>

DbgDirectMode ==
    <<91, 68, 69, 66, 85, 71, 93, 32, 85, 115, 105, 110, 103, 32, 100, 105, 114, 101, 99, 116,
      32, 85, 82, 76, 115, 32, 109, 111, 100, 101>>

DbgDirectCount(n) ==
    <<91, 68, 69, 66, 85, 71, 93, 32, 68, 105, 114, 101, 99, 116, 32, 85, 82, 76, 115, 32, 99,
      111, 117, 110, 116, 58, 32>> \o Dec(n)

DbgFetching(n) ==
    <<91, 68, 69, 66, 85, 71, 93, 32, 70, 101, 116, 99, 104, 105, 110, 103, 32>> \o Dec(n)
    \o <<32, 115, 111, 117, 114, 99, 101, 115, 46, 46, 46>>

DbgSuccessful(k, n) ==
    <<91, 68, 69, 66, 85, 71, 93, 32, 83, 117, 99, 99, 101, 115, 115, 102, 117, 108, 32, 102,
      101, 116, 99, 104, 101, 115, 58, 32>> \o Dec(k) \o <<47>> \o Dec(n)

DbgUnique(n) ==
    <<91, 68, 69, 66, 85, 71, 93, 32, 85, 110, 105, 113, 117, 101, 32, 116, 114, 97, 99, 107,
      101, 114, 115, 58, 32>> \o Dec(n)

\* step 1: the input mode and the configuration, or the error answered
RawConfig(q) ==
    LET none == [error |-> "", sources |-> <<>>, manual |-> <<>>,
                 useDoubleNewline |-> FALSE, logs |-> <<>>]
    IN  IF Truthy(q.data)
        THEN LET d == DecodeConfig(q.data.val)
             IN  IF d.ok
                 THEN [none EXCEPT !.sources = d.val.sources, !.manual = d.val.manual,
                                   !.useDoubleNewline = d.val.doubleNewline,
                                   !.logs = Log(DbgBase64Mode)
                                            \o Log(DbgSources(Len(d.val.sources), Len(d.val.manual)))
                                            \o (IF d.val.doubleNewline THEN Log(DbgDoubleNewline)
                                                ELSE <<>>)]
                 ELSE [none EXCEPT !.error = "# Error: Invalid Base64 JSON",
                                   !.logs = Log(DbgBase64Mode)]
        ELSE IF Truthy(q.urls)
        THEN LET list == Split(q.urls.val, 44)
             IN  [none EXCEPT !.sources = list,
                              !.logs = Log(DbgDirectMode) \o Log(DbgDirectCount(Len(list)))]
        ELSE [none EXCEPT !.error = "# Error: No config provided"]

\* sources.length > MAX_SOURCES
TooManyLax(n) == n > MAX_SOURCES + 1

TooMany(n) == n > MAX_SOURCES

\* safeFetchSource up to its fetch: the URL parses, the host is not
\* blocked, the protocol is http: or https:
RawValid(urlStr) ==
    LET url == ParseURL(urlStr)
    IN  url.ok /\ ~RawBlocked(url.hostname) /\ AllowedProtocol(url.protocol)

RawReject(urlStr) == NullResult

\* onRequestGet from its entry to "await Promise.all": steps 1 and 2
RawStart(r) ==
    /\ pc[r] = "start"
    /\ request[r].endpoint = "raw"
    /\ \E cfg \in {RawConfig(request[r])} :
       \E logs \in {Log(DbgRequestUrl(request[r].url)) \o cfg.logs} :
           IF cfg.error # ""
           THEN /\ Respond(r, [NoResponse EXCEPT !.status = 400, !.error = cfg.error])
                /\ debugLogs' = [debugLogs EXCEPT ![r] = logs]
                /\ UNCHANGED <<sources, manual, useDoubleNewline, fetches, issued, timers>>
           ELSE IF TooMany(Len(cfg.sources))
           THEN /\ Respond(r, [NoResponse EXCEPT !.status = 400,
                                                 !.error = "# Error: Too many sources (Max 20)"])
                /\ sources' = [sources EXCEPT ![r] = cfg.sources]
                /\ manual' = [manual EXCEPT ![r] = cfg.manual]
                /\ useDoubleNewline' = [useDoubleNewline EXCEPT ![r] = cfg.useDoubleNewline]
                /\ debugLogs' = [debugLogs EXCEPT ![r] = logs]
                /\ UNCHANGED <<fetches, issued, timers>>
           ELSE \E valid \in {[i \in 1..Len(cfg.sources) |-> RawValid(cfg.sources[i])]} :
                /\ sources' = [sources EXCEPT ![r] = cfg.sources]
                /\ manual' = [manual EXCEPT ![r] = cfg.manual]
                /\ useDoubleNewline' = [useDoubleNewline EXCEPT ![r] = cfg.useDoubleNewline]
                /\ debugLogs' = [debugLogs EXCEPT ![r] = logs \o Log(DbgFetching(Len(cfg.sources)))]
                /\ fetches' = [fetches EXCEPT ![r] =
                        FanOut(cfg.sources, valid,
                               [i \in 1..Len(cfg.sources) |-> RawReject(cfg.sources[i])],
                               RAW_TIMEOUT_MS, now, timers)]
                /\ issued' = issued \o IssuedBy(r, cfg.sources, valid)
                /\ timers' = timers + CountIssued(valid, Len(valid))
                /\ pc' = [pc EXCEPT ![r] = "fetching"]
                /\ UNCHANGED response
    /\ UNCHANGED <<codec, reqs, request, uniqueTrackers, now>>

\* the upstream answers with a status line: clearTimeout, then "if (!res.ok)
\* return null", else the callback suspends in "await res.text()"
RawHeaders(r, i) ==
    /\ request[r].endpoint = "raw"
    /\ fetches[r][i].st = "headers"
    /\ ~Silent(fetches[r][i].url)
    /\ \E status \in UpstreamStatuses :
          SetFetch(r, i, IF IsOk(status)
                         THEN [fetches[r][i] EXCEPT !.timer = "cleared", !.st = "body"]
                         ELSE [fetches[r][i] EXCEPT !.timer = "cleared", !.st = "settled",
                                                    !.result = NullResult])
    /\ UNCHANGED <<codec, reqs, request, pc, sources, manual, useDoubleNewline,
                   debugLogs, uniqueTrackers, response, issued, timers, now>>

\* (variant) safeFetchSource without its try / catch: the rejection reaches
\* Promise.all and the request fails
RawFetchErrorUncaught(r, i) ==
    /\ request[r].endpoint = "raw"
    /\ pc[r] = "fetching"
    /\ fetches[r][i].st = "headers"
    /\ ~Silent(fetches[r][i].url)
    /\ SetFetch(r, i, [fetches[r][i] EXCEPT !.st = "settled", !.result = NullResult])
    /\ Respond(r, [NoResponse EXCEPT !.status = 500, !.error = "Internal Server Error"])
    /\ UNCHANGED <<codec, reqs, request, sources, manual, useDoubleNewline,
                   debugLogs, uniqueTrackers, issued, timers, now>>

\* (variant) a rejected fetch() called once more for the same source
RawFetchErrorRetried(r, i) ==
    /\ request[r].endpoint = "raw"
    /\ fetches[r][i].st = "headers"
    /\ ~Silent(fetches[r][i].url)
    /\ Cardinality({k \in DOMAIN issued : issued[k].req = r /\ issued[k].idx = i}) < 2
    /\ issued' = Append(issued, [req |-> r, idx |-> i, url |-> fetches[r][i].url,
                                 hostname |-> ParseURL(fetches[r][i].url).hostname])
    /\ UNCHANGED <<codec, reqs, request, pc, sources, manual, useDoubleNewline,
                   debugLogs, fetches, uniqueTrackers, response, timers, now>>

\* fetch() rejects (transport failure): the catch block returns null
RawFetchError(r, i) ==
    /\ request[r].endpoint = "raw"
    /\ fetches[r][i].st = "headers"
    /\ ~Silent(fetches[r][i].url)
    /\ SetFetch(r, i, [fetches[r][i] EXCEPT !.st = "settled", !.result = NullResult])
    /\ UNCHANGED <<codec, reqs, request, pc, sources, manual, useDoubleNewline,
                   debugLogs, uniqueTrackers, response, issued, timers, now>>

\* the size check of safeFetchSource on a body read in full
RawSized(text) == IF StrLen(text) > 512 * 1024 THEN NullResult ELSE TextResult(text)

\* res.text() resolves with the body
RawBody(r, i) ==
    /\ request[r].endpoint = "raw"
    /\ fetches[r][i].st = "body"
    /\ \E text \in Bodies :
          SetFetch(r, i, [fetches[r][i] EXCEPT !.st = "settled", !.body = Given(text),
                                                  !.result = RawSized(text)])
    /\ UNCHANGED <<codec, reqs, request, pc, sources, manual, useDoubleNewline,
                   debugLogs, uniqueTrackers, response, issued, timers, now>>

\* res.text() rejects: the catch block returns null
RawBodyError(r, i) ==
    /\ request[r].endpoint = "raw"
    /\ fetches[r][i].st = "body"
    /\ SetFetch(r, i, [fetches[r][i] EXCEPT !.st = "settled", !.result = NullResult])
    /\ UNCHANGED <<codec, reqs, request, pc, sources, manual, useDoubleNewline,
                   debugLogs, uniqueTrackers, response, issued, timers, now>>

\* (variant) fetch() called without "signal: controller.signal": the timer
\* fires and aborts nothing
RawAbortUnwired(r, i) ==
    /\ request[r].endpoint = "raw"
    /\ NextTimer(r, i)
    /\ fetches[r][i].st = "headers"
    /\ SetFetch(r, i, [fetches[r][i] EXCEPT !.timer = "fired"])
    /\ UNCHANGED <<codec, reqs, request, pc, sources, manual, useDoubleNewline,
                   debugLogs, uniqueTrackers, response, issued, timers, now>>

\* the timer fires while fetch() is pending: controller.abort() rejects it
\* and the catch block returns null
RawAbort(r, i) ==
    /\ request[r].endpoint = "raw"
    /\ NextTimer(r, i)
    /\ fetches[r][i].st = "headers"
    /\ SetFetch(r, i, [fetches[r][i] EXCEPT !.timer = "fired", !.st = "settled",
                                            !.result = NullResult])
    /\ UNCHANGED <<codec, reqs, request, pc, sources, manual, useDoubleNewline,
                   debugLogs, uniqueTrackers, response, issued, timers, now>>

\* (variant) the results kept in one list at module level: a request reads
\* those of the other request in flight after its own
ResultsOfAll(r) ==
    LET own  == [i \in DOMAIN fetches[r] |-> fetches[r][i].result]
        rest == reqs \ {r}
    IN  IF rest = {} THEN own
        ELSE LET o == CHOOSE x \in rest : TRUE
             IN  own \o [i \in DOMAIN fetches[o] |-> fetches[o][i].result]

\* (variant) the results taken in the order the callbacks returned
ResultsAsCompleted(r) ==
    LET n == Len(fetches[r])
        before(j, i) ==
            \/ fetches[r][j].ord < fetches[r][i].ord
            \/ fetches[r][j].ord = fetches[r][i].ord /\ j < i
        rank(i) == 1 + Cardinality({j \in 1..n : before(j, i)})
    IN  [k \in 1..n |-> fetches[r][CHOOSE i \in 1..n : rank(i) = k].result]

\* the results of the callbacks, in source order
Results(r) == [i \in DOMAIN fetches[r] |-> fetches[r][i].result]

\* separator and response text of step 4
Separator(double) == IF double THEN <<10, 10>> ELSE <<10>>

ResponseText(set, double, logs) ==
    IF DEBUG THEN Join(logs, <<10>>) \o <<10, 10>> \o Join(set, Separator(double))
    ELSE Join(set, Separator(double))

\* (variant) the results merged as soon as one callback has returned,
\* without waiting for the others
RawJoinEarly(r) ==
    /\ request[r].endpoint = "raw"
    /\ pc[r] = "fetching"
    /\ \E i \in DOMAIN fetches[r] : fetches[r][i].st = "settled"
    /\ \E results \in {Results(r)} :
       \E set \in {Aggregate(manual[r], results)} :
       \E logs \in {debugLogs[r] \o Log(DbgUnique(Len(set)))} :
           /\ uniqueTrackers' = [uniqueTrackers EXCEPT ![r] = set]
           /\ debugLogs' = [debugLogs EXCEPT ![r] = logs]
           /\ Respond(r, [NoResponse EXCEPT !.status = 200,
                             !.text = ResponseText(set, useDoubleNewline[r], logs)])
    /\ UNCHANGED <<codec, reqs, request, sources, manual, useDoubleNewline,
                   fetches, issued, timers, now>>

\* Promise.all has resolved: steps 3 and 4
RawJoin(r) ==
    /\ request[r].endpoint = "raw"
    /\ pc[r] = "fetching"
    /\ AllSettled(r)
    /\ \E results \in {Results(r)} :
       \E ok \in {Cardinality({i \in DOMAIN results : results[i].kind # "null"})} :
           IF \E k \in DOMAIN manual[r] : ~IsString(manual[r][k])
           THEN \* line.trim() of cleanAndAdd throws on an entry that is no
                \* string: the exception leaves the handler and the platform
                \* answers for it
                /\ debugLogs' = [debugLogs EXCEPT ![r] =
                                    debugLogs[r] \o Log(DbgSuccessful(ok, Len(sources[r])))]
                /\ Respond(r, [NoResponse EXCEPT !.status = 500,
                                  !.error = "TypeError: line.trim is not a function"])
                /\ UNCHANGED uniqueTrackers
           ELSE \E set \in {Aggregate(manual[r], results)} :
                \E logs \in {debugLogs[r] \o Log(DbgSuccessful(ok, Len(sources[r])))
                                           \o Log(DbgUnique(Len(set)))} :
                    /\ uniqueTrackers' = [uniqueTrackers EXCEPT ![r] = set]
                    /\ debugLogs' = [debugLogs EXCEPT ![r] = logs]
                    /\ Respond(r, [NoResponse EXCEPT !.status = 200,
                                      !.text = ResponseText(set, useDoubleNewline[r], logs)])
    /\ UNCHANGED <<codec, reqs, request, sources, manual, useDoubleNewline,
                   fetches, issued, timers, now>>

----------------------------------------------------------------------------
(* Batch proxy: functions/api/proxy.js, onRequest                          *)

\* target lists of the batch proxy
BatchLists ==
    {<<u>> : u \in AllUrls \cup {U_PROTO}}
    \cup {<<U_A, U_A>>, <<U_A, U_B>>, <<U_BAD, U_A>>, <<U_PROTO, U_A>>, <<U_A, U_172_16>>}
    \cup LongLists

\* a text JSON.parse rejects
BrokenJson == <<91, 34>>                                                        \* ["

\* request.url of the batch proxy
BatchUrl(name, value) ==
    OwnOrigin \o <<47, 97, 112, 105, 47, 112, 114, 111, 120, 121>>            \* /api/proxy
    \o (IF name = "urls" THEN <<63, 117, 114, 108, 115, 61>> \o value         \* ?urls=
        ELSE IF name = "url" THEN <<63, 117, 114, 108, 61>> \o value          \* ?url=
        ELSE <<>>)

\* batch requests: ?urls=<JSON array>, ?url=<target>, a POST body, nothing
BatchRequests ==
    {[NoRequest EXCEPT !.endpoint = "batch", !.urls = Given(t), !.url = BatchUrl("urls", t)] :
        t \in {JsonArray(l) : l \in BatchLists \cup {<<>>}} \cup {BrokenJson}}
    \cup {[NoRequest EXCEPT !.endpoint = "batch", !.target = Given(u), !.url = BatchUrl("url", u)] :
             u \in {U_A, U_LOCAL}}
    \cup {[NoRequest EXCEPT !.endpoint = "batch", !.method = "POST", !.post = b,
                            !.url = BatchUrl("none", <<>>)] :
             b \in {[kind |-> "urls", list |-> <<U_B, U_A>>], [kind |-> "urls", list |-> <<>>],
                    [kind |-> "url", list |-> <<U_B>>], [kind |-> "empty", list |-> <<>>],
                    [kind |-> "bad", list |-> <<>>]}}
    \cup {[NoRequest EXCEPT !.endpoint = "batch", !.url = BatchUrl("none", <<>>)]}

\* JSON.parse(urlsParam) on the array texts of the model; any other text is
\* a SyntaxError
TargetsTable == {<<JsonArray(l), l>> : l \in BatchLists \cup {<<>>}}

ParseTargets(text) ==
    IF \E e \in TargetsTable : e[1] = text
    THEN [ok |-> TRUE, val |-> (CHOOSE e \in TargetsTable : e[1] = text)[2]]
    ELSE [ok |-> FALSE, val |-> <<>>]

\* step 1, input parsing: the targets, or ok = FALSE when the try block threw
\* ("await request.json()" shares no state with any other request and is
\* taken in the same step)
BatchTargets(q) ==
    IF Truthy(q.urls) THEN ParseTargets(q.urls.val)
    ELSE IF Truthy(q.target) THEN [ok |-> TRUE, val |-> <<q.target.val>>]
    ELSE IF q.method = "POST"
    THEN IF q.post.kind = "bad" THEN [ok |-> FALSE, val |-> <<>>]
         ELSE IF q.post.kind = "urls" THEN [ok |-> TRUE, val |-> q.post.list]
         ELSE IF q.post.kind = "url" THEN [ok |-> TRUE, val |-> <<q.post.list[1]>>]
         ELSE [ok |-> TRUE, val |-> <<>>]
    ELSE [ok |-> TRUE, val |-> <<>>]

\* the callback of targets.map up to its fetch: the target parses, its
\* protocol is allowed, its host is not private
BatchValid(targetUrlStr) ==
    LET targetUrl == ParseURL(targetUrlStr)
    IN  /\ targetUrl.ok
        /\ AllowedProtocol(targetUrl.protocol)
        /\ ~BatchIsPrivate(ToLowerCase(targetUrl.hostname))

\* what the callback returns for a target it does not fetch
BatchReject(targetUrlStr) ==
    LET targetUrl == ParseURL(targetUrlStr)
    IN  IF ~targetUrl.ok THEN ErrorResult("Fetch Failed")
        ELSE IF ~AllowedProtocol(targetUrl.protocol) THEN ErrorResult("Invalid Protocol")
        ELSE ErrorResult("Private Network Blocked")

\* text.length > MAX_SIZE_BYTES ? text.substring(0, MAX_SIZE_BYTES) : text
Truncate(text) ==
    IF StrLen(text) > MAX_SIZE_BYTES THEN Substring0(text, MAX_SIZE_BYTES) ELSE text

S_UDP   == <<117, 100, 112, 58, 47, 47>>             \* udp://
S_HTTP  == <<104, 116, 116, 112, 58, 47, 47>>        \* http://
S_HTTPS == <<104, 116, 116, 112, 115, 58, 47, 47>>   \* https://
S_WSS   == <<119, 115, 115, 58, 47, 47>>             \* wss://

\* steps D and E of the callback on a body read in full
BatchChecked(body) ==
    LET text    == Truncate(body)
        sample  == ToLowerCase(Substring0(text, 500))
        isValid == Includes(sample, S_UDP) \/ Includes(sample, S_HTTP) \/ Includes(sample, S_WSS)
    IN  IF ~isValid /\ StrLen(Trim(text)) > 0 THEN ErrorResult("Invalid Content")
        ELSE TextResult(text)

\* onRequest from its entry to "await Promise.all": steps 1 and 2
BatchStart(r) ==
    /\ pc[r] = "start"
    /\ request[r].endpoint = "batch"
    /\ \E targets \in {BatchTargets(request[r])} :
           IF ~targets.ok
           THEN /\ Respond(r, [NoResponse EXCEPT !.status = 400, !.error = "Invalid JSON or params"])
                /\ UNCHANGED <<sources, fetches, issued, timers>>
           ELSE IF Len(targets.val) = 0
           THEN /\ Respond(r, [NoResponse EXCEPT !.status = 400, !.error = "Missing URL(s)"])
                /\ UNCHANGED <<sources, fetches, issued, timers>>
           ELSE IF Len(targets.val) > 20
           THEN /\ Respond(r, [NoResponse EXCEPT !.status = 400,
                                                 !.error = "Too many sources (Limit 20)"])
                /\ sources' = [sources EXCEPT ![r] = targets.val]
                /\ UNCHANGED <<fetches, issued, timers>>
           ELSE \E valid \in {[i \in 1..Len(targets.val) |-> BatchValid(targets.val[i])]} :
                /\ sources' = [sources EXCEPT ![r] = targets.val]
                /\ fetches' = [fetches EXCEPT ![r] =
                        FanOut(targets.val, valid,
                               [i \in 1..Len(targets.val) |-> BatchReject(targets.val[i])],
                               PROXY_TIMEOUT_MS, now, timers)]
                /\ issued' = issued \o IssuedBy(r, targets.val, valid)
                /\ timers' = timers + CountIssued(valid, Len(valid))
                /\ pc' = [pc EXCEPT ![r] = "fetching"]
                /\ UNCHANGED response
    /\ UNCHANGED <<codec, reqs, request, manual, useDoubleNewline, debugLogs, uniqueTrackers, now>>

\* the upstream answers with a status line: clearTimeout, then the status
\* result when it is not ok, else the callback suspends in "await response.text()"
BatchHeaders(r, i) ==
    /\ request[r].endpoint = "batch"
    /\ fetches[r][i].st = "headers"
    /\ ~Silent(fetches[r][i].url)
    /\ \E status \in UpstreamStatuses :
          SetFetch(r, i, IF IsOk(status)
                         THEN [fetches[r][i] EXCEPT !.timer = "cleared", !.st = "body"]
                         ELSE [fetches[r][i] EXCEPT !.timer = "cleared", !.st = "settled",
                                                    !.result = StatusResult(status)])
    /\ UNCHANGED <<codec, reqs, request, pc, sources, manual, useDoubleNewline,
                   debugLogs, uniqueTrackers, response, issued, timers, now>>

\* fetch() rejects (transport failure): the catch block
BatchFetchError(r, i) ==
    /\ request[r].endpoint = "batch"
    /\ fetches[r][i].st = "headers"
    /\ ~Silent(fetches[r][i].url)
    /\ SetFetch(r, i, [fetches[r][i] EXCEPT !.st = "settled",
                                            !.result = ErrorResult("Fetch Failed")])
    /\ UNCHANGED <<codec, reqs, request, pc, sources, manual, useDoubleNewline,
                   debugLogs, uniqueTrackers, response, issued, timers, now>>

\* response.text() resolves with the body
BatchBody(r, i) ==
    /\ request[r].endpoint = "batch"
    /\ fetches[r][i].st = "body"
    /\ \E text \in Bodies :
          SetFetch(r, i, [fetches[r][i] EXCEPT !.st = "settled", !.body = Given(text),
                                                  !.result = BatchChecked(text)])
    /\ UNCHANGED <<codec, reqs, request, pc, sources, manual, useDoubleNewline,
                   debugLogs, uniqueTrackers, response, issued, timers, now>>

\* response.text() rejects: the catch block
BatchBodyError(r, i) ==
    /\ request[r].endpoint = "batch"
    /\ fetches[r][i].st = "body"
    /\ SetFetch(r, i, [fetches[r][i] EXCEPT !.st = "settled",
                                            !.result = ErrorResult("Fetch Failed")])
    /\ UNCHANGED <<codec, reqs, request, pc, sources, manual, useDoubleNewline,
                   debugLogs, uniqueTrackers, response, issued, timers, now>>

\* the timer fires while fetch() is pending: controller.abort() rejects it
\* and the catch block returns
BatchAbort(r, i) ==
    /\ request[r].endpoint = "batch"
    /\ NextTimer(r, i)
    /\ fetches[r][i].st = "headers"
    /\ SetFetch(r, i, [fetches[r][i] EXCEPT !.timer = "fired", !.st = "settled",
                                            !.result = ErrorResult("Fetch Failed")])
    /\ UNCHANGED <<codec, reqs, request, pc, sources, manual, useDoubleNewline,
                   debugLogs, uniqueTrackers, response, issued, timers, now>>

\* responseMap[key] = value on an object literal: the key "__proto__" sets
\* the prototype and makes no own property, any other key is set or overwritten
MapSet(map, key, value) ==
    IF key = U_PROTO THEN map
    ELSE {e \in map : e.key # key} \cup {[key |-> key, value |-> value]}

RECURSIVE MapAll(_, _, _)
\* results.forEach(r => { responseMap[r.url] = r })
MapAll(fs, i, map) ==
    IF i > Len(fs) THEN map ELSE MapAll(fs, i + 1, MapSet(map, fs[i].url, fs[i].result))

\* Promise.all has resolved: step 3
BatchJoin(r) ==
    /\ request[r].endpoint = "batch"
    /\ pc[r] = "fetching"
    /\ AllSettled(r)
    /\ Respond(r, [NoResponse EXCEPT !.status = 200, !.map = MapAll(fetches[r], 1, {})])
    /\ UNCHANGED <<codec, reqs, request, sources, manual, useDoubleNewline, debugLogs,
                   fetches, uniqueTrackers, issued, timers, now>>

----------------------------------------------------------------------------
(* Single-target proxy: functions/api/proxy.js, onRequestGet               *)

\* Origin / Referer header values
H_EVIL  == <<104, 116, 116, 112, 58, 47, 47, 101, 46, 105, 111>>                    \* http://e.io
H_DEV   == <<104, 116, 116, 112, 58, 47, 47, 108, 111, 99, 97, 108, 104, 111, 115, 116,
             58, 56, 48>>                                                            \* http://localhost:80
H_LOOP  == <<104, 116, 116, 112, 58, 47, 47, 49, 50, 55, 46, 48, 46, 48, 46, 49>>   \* http://127.0.0.1
H_PAGE  == OwnOrigin \o <<47>>                                                       \* https://t.dev/

S_LOCALHOST == <<108, 111, 99, 97, 108, 104, 111, 115, 116>>                        \* localhost
S_LOOPBACK  == <<49, 50, 55, 46, 48, 46, 48, 46, 49>>                               \* 127.0.0.1

\* request.url of the single-target proxy
SingleUrl(target) ==
    OwnOrigin \o <<47, 97, 112, 105, 47, 112, 114, 111, 120, 121>>                  \* /api/proxy
    \o (IF target.has THEN <<63, 117, 114, 108, 61>> \o target.val ELSE <<>>)       \* ?url=

\* single-target requests: every target without headers, one target under
\* every pair of headers, no target and refused targets under a foreign header
SingleRequests ==
    {[NoRequest EXCEPT !.endpoint = "single", !.target = t, !.url = SingleUrl(t)] :
        t \in {Given(u) : u \in AllUrls} \cup {Absent, Given(<<>>)}}
    \cup {[NoRequest EXCEPT !.endpoint = "single", !.target = Given(U_A),
                            !.url = SingleUrl(Given(U_A)), !.origin = o, !.referer = f] :
             o \in {Absent, Given(<<>>), Given(OwnOrigin), Given(H_EVIL), Given(H_LOOP)},
             f \in {Absent, Given(H_PAGE), Given(H_EVIL), Given(H_DEV)}}
    \cup {[NoRequest EXCEPT !.endpoint = "single", !.target = t, !.url = SingleUrl(t),
                            !.origin = Given(H_EVIL)] :
             t \in {Absent, Given(U_BAD), Given(U_FTP), Given(U_LOCAL)}}

\* new URL(request.url).origin
Origin(url) == Substring0(url, IndexOf(SubstringFrom(url, 8), 47) + 7)

\* request.headers.get('Origin') || request.headers.get('Referer') || ""
CallerOrigin(q) ==
    IF Truthy(q.origin) THEN q.origin.val
    ELSE IF Truthy(q.referer) THEN q.referer.val
    ELSE <<>>

\* (variant) the guard looking at the Origin header alone
UnauthorizedByOrigin(q) ==
    LET origin == IF Truthy(q.origin) THEN q.origin.val ELSE <<>>
    IN  /\ origin # <<>>
        /\ ~Includes(origin, Origin(q.url))
        /\ ~Includes(origin, S_LOCALHOST)
        /\ ~Includes(origin, S_LOOPBACK)

\* step 4, the origin guard
Unauthorized(q) ==
    LET origin == CallerOrigin(q)
    IN  /\ origin # <<>>
        /\ ~Includes(origin, Origin(q.url))
        /\ ~Includes(origin, S_LOCALHOST)
        /\ ~Includes(origin, S_LOOPBACK)

\* steps 1 to 4: the Response of the gatekeeper, status 0 when the target passes
SingleGate(q) ==
    LET targetUrl == ParseURL(q.target.val)
    IN  IF ~Truthy(q.target)
        THEN [NoResponse EXCEPT !.status = 400, !.error = "Missing URL"]
        ELSE IF ~targetUrl.ok
        THEN [NoResponse EXCEPT !.status = 400, !.error = "Invalid URL format"]
        ELSE IF ~AllowedProtocol(targetUrl.protocol)
        THEN [NoResponse EXCEPT !.status = 403, !.error = "Blocked: Only HTTP/HTTPS allowed"]
        ELSE IF SingleIsPrivate(ToLowerCase(targetUrl.hostname))
        THEN [NoResponse EXCEPT !.status = 403,
                                !.error = "Blocked: Access to private networks denied"]
        ELSE IF Unauthorized(q)
        THEN [NoResponse EXCEPT !.status = 403, !.error = "Unauthorized Proxy Usage"]
        ELSE NoResponse

\* onRequestGet from its entry to "await fetch"
SingleStart(r) ==
    /\ pc[r] = "start"
    /\ request[r].endpoint = "single"
    /\ \E gate \in {SingleGate(request[r])} :
           IF gate.status # 0
           THEN /\ Respond(r, gate)
                /\ UNCHANGED <<sources, fetches, issued, timers>>
           ELSE /\ sources' = [sources EXCEPT ![r] = <<request[r].target.val>>]
                /\ fetches' = [fetches EXCEPT ![r] =
                        <<PendingFetch(request[r].target.val, now + PROXY_TIMEOUT_MS, timers + 1)>>]
                /\ issued' = Append(issued, [req |-> r, idx |-> 1, url |-> request[r].target.val,
                                             hostname |-> ParseURL(request[r].target.val).hostname])
                /\ timers' = timers + 1
                /\ pc' = [pc EXCEPT ![r] = "fetching"]
                /\ UNCHANGED response
    /\ UNCHANGED <<codec, reqs, request, manual, useDoubleNewline, debugLogs, uniqueTrackers, now>>

\* the Content-Length header of an upstream answer: none, a length within
\* the cap, a length above it
ContentLengths == {Absent, Given(Dec(9)), Given(Dec(MAX_SIZE_BYTES)), Given(Dec(MAX_SIZE_BYTES + 1))}

RECURSIVE ParseInt(_)
\* parseInt on a string of decimal digits
ParseInt(s) == IF s = <<>> THEN 0 ELSE 10 * ParseInt(SubSeq(s, 1, Len(s) - 1)) + (s[Len(s)] - 48)

\* the upstream answers with a status line and headers: clearTimeout, 502
\* when the status is not ok, 413 by the header check, else the handler
\* suspends in "await response.text()"
SingleHeaders(r) ==
    /\ request[r].endpoint = "single"
    /\ pc[r] = "fetching"
    /\ fetches[r][1].st = "headers"
    /\ ~Silent(fetches[r][1].url)
    /\ \E status \in UpstreamStatuses, contentLength \in ContentLengths :
          IF ~IsOk(status)
          THEN /\ SetFetch(r, 1, [fetches[r][1] EXCEPT !.timer = "cleared", !.st = "settled",
                                                      !.result = StatusResult(status)])
               /\ Respond(r, [NoResponse EXCEPT !.status = 502, !.error = "Upstream Error"])
          ELSE IF Truthy(contentLength) /\ ParseInt(contentLength.val) > MAX_SIZE_BYTES
          THEN /\ SetFetch(r, 1, [fetches[r][1] EXCEPT !.timer = "cleared", !.st = "settled",
                                      !.result = ErrorResult("File too large (Header Check)")])
               /\ Respond(r, [NoResponse EXCEPT !.status = 413,
                                                !.error = "File too large (Header Check)"])
          ELSE /\ SetFetch(r, 1, [fetches[r][1] EXCEPT !.timer = "cleared", !.st = "body"])
               /\ UNCHANGED <<pc, response>>
    /\ UNCHANGED <<codec, reqs, request, sources, manual, useDoubleNewline,
                   debugLogs, uniqueTrackers, issued, timers, now>>

\* steps 8 to 10 on a body read in full
SingleChecked(body) ==
    LET text   == Truncate(body)
        sample == ToLowerCase(Substring0(text, 1000))
        isValidTrackerList ==
            \/ Includes(sample, S_UDP) \/ Includes(sample, S_HTTP)
            \/ Includes(sample, S_HTTPS) \/ Includes(sample, S_WSS)
    IN  IF ~isValidTrackerList
        THEN [NoResponse EXCEPT !.status = 422,
                 !.error = "Security Block: Content does not look like a tracker list"]
        ELSE [NoResponse EXCEPT !.status = 200, !.text = text]

\* response.text() resolves with the body
SingleBody(r) ==
    /\ request[r].endpoint = "single"
    /\ pc[r] = "fetching"
    /\ fetches[r][1].st = "body"
    /\ \E text \in Bodies :
          /\ SetFetch(r, 1, [fetches[r][1] EXCEPT !.st = "settled", !.body = Given(text),
                                                  !.result = TextResult(Truncate(text))])
          /\ Respond(r, SingleChecked(text))
    /\ UNCHANGED <<codec, reqs, request, sources, manual, useDoubleNewline,
                   debugLogs, uniqueTrackers, issued, timers, now>>

\* fetch() or response.text() rejects with an error other than AbortError
SingleError(r) ==
    /\ request[r].endpoint = "single"
    /\ pc[r] = "fetching"
    /\ \/ fetches[r][1].st = "headers" /\ ~Silent(fetches[r][1].url)
       \/ fetches[r][1].st = "body"
    /\ SetFetch(r, 1, [fetches[r][1] EXCEPT !.st = "settled", !.result = ErrorResult("Proxy Error")])
    /\ Respond(r, [NoResponse EXCEPT !.status = 500, !.error = "Proxy Error"])
    /\ UNCHANGED <<codec, reqs, request, sources, manual, useDoubleNewline,
                   debugLogs, uniqueTrackers, issued, timers, now>>

\* (variant) the catch block without its test of err.name: the abort is
\* answered like any other error
SingleAbortUnnamed(r) ==
    /\ request[r].endpoint = "single"
    /\ pc[r] = "fetching"
    /\ NextTimer(r, 1)
    /\ fetches[r][1].st = "headers"
    /\ SetFetch(r, 1, [fetches[r][1] EXCEPT !.timer = "fired", !.st = "settled",
                                            !.result = ErrorResult("Upstream Timeout")])
    /\ Respond(r, [NoResponse EXCEPT !.status = 500, !.error = "Proxy Error"])
    /\ UNCHANGED <<codec, reqs, request, sources, manual, useDoubleNewline,
                   debugLogs, uniqueTrackers, issued, timers, now>>

\* the timer fires while fetch() is pending: controller.abort() rejects it
\* with an AbortError
SingleAbort(r) ==
    /\ request[r].endpoint = "single"
    /\ pc[r] = "fetching"
    /\ NextTimer(r, 1)
    /\ fetches[r][1].st = "headers"
    /\ SetFetch(r, 1, [fetches[r][1] EXCEPT !.timer = "fired", !.st = "settled",
                                            !.result = ErrorResult("Upstream Timeout")])
    /\ Respond(r, [NoResponse EXCEPT !.status = 504, !.error = "Upstream Timeout"])
    /\ UNCHANGED <<codec, reqs, request, sources, manual, useDoubleNewline,
                   debugLogs, uniqueTrackers, issued, timers, now>>

----------------------------------------------------------------------------
(* The encoding pipeline, stage by stage                                   *)

CodecIdle == [stage |-> "idle", config |-> Thrown.val, plan |-> BypassPlan,
              json |-> <<>>, text |-> <<>>, out |-> <<>>, result |-> Thrown]

CodecInit ==
    \E c \in CodecConfigs, p \in Plans :
        /\ codec = [CodecIdle EXCEPT !.stage = "config", !.config = c, !.plan = p]
        /\ NoHandlers

\* JSON.stringify of the configuration
CStringify ==
    /\ UNCHANGED handlerVars
    /\ codec.stage = "config"
    /\ codec' = [codec EXCEPT !.stage = "json", !.json = Stringify(codec.config)]

\* Compress
CCompress ==
    /\ UNCHANGED handlerVars
    /\ codec.stage = "json"
    /\ codec' = [codec EXCEPT !.stage = "compressed",
                              !.text = Compress(codec.json, codec.plan)]

\* decompress applied to the compressed text itself
CDecompressDirect ==
    /\ UNCHANGED handlerVars
    /\ codec.stage = "compressed"
    /\ codec' = [codec EXCEPT !.stage = "expanded", !.out = decompress(codec.text)]

\* LatinEscape
CLatinEscape ==
    /\ UNCHANGED handlerVars
    /\ codec.stage = "compressed"
    /\ codec' = [codec EXCEPT !.stage = "escaped", !.text = LatinEscape(codec.text)]

\* Base64
CBtoa ==
    /\ UNCHANGED handlerVars
    /\ codec.stage = "escaped"
    /\ codec' = [codec EXCEPT !.stage = "payload", !.text = Btoa(codec.text)]

\* the payload travels in the query string, percent-encoded or not
CTransport ==
    /\ UNCHANGED handlerVars
    /\ codec.stage = "payload"
    /\ \E plain \in BOOLEAN :
        codec' = [codec EXCEPT !.stage = "query",
                               !.text = IF plain THEN QueryDecode(codec.text) ELSE codec.text]

\* atob(encodedData.replace(/ /g, '+'))
CAtob ==
    /\ UNCHANGED handlerVars
    /\ codec.stage = "query"
    /\ LET d == Atob(SpacesToPlus(codec.text))
       IN  codec' = IF d.ok THEN [codec EXCEPT !.stage = "bytes", !.text = d.val]
                    ELSE [codec EXCEPT !.stage = "parsed", !.result = Thrown]

\* latin1ToString
CLatin1ToString ==
    /\ UNCHANGED handlerVars
    /\ codec.stage = "bytes"
    /\ codec' = [codec EXCEPT !.stage = "restored", !.text = latin1ToString(codec.text)]

\* decompress
CDecompress ==
    /\ UNCHANGED handlerVars
    /\ codec.stage = "restored"
    /\ codec' = [codec EXCEPT !.stage = "jsonOut", !.out = decompress(codec.text)]

\* JSON.parse
CParse ==
    /\ UNCHANGED handlerVars
    /\ codec.stage = "jsonOut"
    /\ codec' = [codec EXCEPT !.stage = "parsed", !.result = JSONParse(codec.out)]

CodecNext ==
    \/ CStringify
    \/ CCompress
    \/ CDecompressDirect
    \/ CLatinEscape
    \/ CBtoa
    \/ CTransport
    \/ CAtob
    \/ CLatin1ToString
    \/ CDecompress
    \/ CParse

SpecCodec == CodecInit /\ [][CodecNext]_vars

----------------------------------------------------------------------------
(* The handlers, one request at a time                                     *)

Requests == RawRequests \cup BatchRequests \cup SingleRequests

\* the handler-local state of the requests rs, each drawn from qs, before
\* their handlers run
FreshFrom(rs, qs) ==
    /\ reqs = rs
    /\ request \in [rs -> qs]
    /\ pc = [r \in rs |-> "start"]
    /\ sources = [r \in rs |-> <<>>]
    /\ manual = [r \in rs |-> <<>>]
    /\ useDoubleNewline = [r \in rs |-> FALSE]
    /\ debugLogs = [r \in rs |-> <<>>]
    /\ fetches = [r \in rs |-> <<>>]
    /\ uniqueTrackers = [r \in rs |-> <<>>]
    /\ response = [r \in rs |-> NoResponse]
    /\ issued = <<>>
    /\ timers = 0
    /\ now = 0
    /\ codec = CodecIdle

Fresh(rs) == FreshFrom(rs, Requests)

\* the requests in flight
Handled == {1}

Init == Fresh(Handled)

Next ==
    \/ Advance
    \/ \E r \in reqs : RawStart(r)
    \/ \E r \in reqs : RawJoin(r)
    \/ \E r \in reqs : \E i \in DOMAIN fetches[r] : RawHeaders(r, i)
    \/ \E r \in reqs : \E i \in DOMAIN fetches[r] : RawFetchError(r, i)
    \/ \E r \in reqs : \E i \in DOMAIN fetches[r] : RawBody(r, i)
    \/ \E r \in reqs : \E i \in DOMAIN fetches[r] : RawBodyError(r, i)
    \/ \E r \in reqs : \E i \in DOMAIN fetches[r] : RawAbort(r, i)
    \/ \E r \in reqs : \E i \in DOMAIN fetches[r] : TimerLapse(r, i)
    \/ \E r \in reqs : BatchStart(r)
    \/ \E r \in reqs : BatchJoin(r)
    \/ \E r \in reqs : \E i \in DOMAIN fetches[r] : BatchHeaders(r, i)
    \/ \E r \in reqs : \E i \in DOMAIN fetches[r] : BatchFetchError(r, i)
    \/ \E r \in reqs : \E i \in DOMAIN fetches[r] : BatchBody(r, i)
    \/ \E r \in reqs : \E i \in DOMAIN fetches[r] : BatchBodyError(r, i)
    \/ \E r \in reqs : \E i \in DOMAIN fetches[r] : BatchAbort(r, i)
    \/ \E r \in reqs : SingleStart(r)
    \/ \E r \in reqs : SingleHeaders(r)
    \/ \E r \in reqs : SingleBody(r)
    \/ \E r \in reqs : SingleError(r)
    \/ \E r \in reqs : SingleAbort(r)

Spec == Init /\ [][Next]_vars

\* the step of request r that follows "await Promise.all", told by its
\* effect on pc: RawJoin and BatchJoin are the actions that take it
Resumed(r) ==
    /\ pc[r] = "fetching"
    /\ AllSettled(r)
    /\ pc' = [pc EXCEPT ![r] = "done"]

\* a timer of request r fires while its fetch() is pending
Aborted(r) ==
    \E i \in DOMAIN fetches[r] :
        \/ RawAbort(r, i)
        \/ BatchAbort(r, i)
        \/ i = 1 /\ SingleAbort(r)

\* The event loop runs what is ready: the handler once its await has
\* resolved, a timer once it is due.  Upstream hosts owe nothing.
Fairness ==
    /\ WF_vars(Advance)
    /\ \A r \in Handled :
          /\ WF_pc(Resumed(r))
          /\ WF_vars(Aborted(r))

FairSpec == Init /\ [][Next]_vars /\ Fairness

----------------------------------------------------------------------------
(* Two requests in flight at once                                          *)

Pair == {1, 2}

\* an aggregation request of each mode, a batch request and a single-target
\* request
PairRequests ==
    {[NoRequest EXCEPT !.endpoint = "raw", !.urls = Given(U_A), !.url = RawUrl("urls", U_A)],
     [NoRequest EXCEPT !.endpoint = "raw",
         !.data = Given(Encode([sources |-> <<U_A>>, manual |-> <<T_PAD, T_FTP, T_WSS>>,
                                doubleNewline |-> TRUE],
                               [bypass |-> FALSE, patterns |-> <<>>, rewriteEarlier |-> FALSE])),
         !.url = RawUrl("data", Encode([sources |-> <<U_A>>, manual |-> <<T_PAD, T_FTP, T_WSS>>,
                                        doubleNewline |-> TRUE],
                                       [bypass |-> FALSE, patterns |-> <<>>, rewriteEarlier |-> FALSE]))],
     [NoRequest EXCEPT !.endpoint = "batch", !.urls = Given(JsonArray(<<U_B>>)),
                       !.url = BatchUrl("urls", JsonArray(<<U_B>>))],
     [NoRequest EXCEPT !.endpoint = "single", !.target = Given(U_A), !.url = SingleUrl(Given(U_A))]}

InitPair == FreshFrom(Pair, PairRequests)

SpecPair == InitPair /\ [][Next]_vars

----------------------------------------------------------------------------
(* What the claims speak of                                                *)

\* a hostname the specification calls private
SpecPrivate(hostname) ==
    \/ hostname = S_LOCALHOST
    \/ EndsWith(hostname, <<46, 108, 111, 99, 97, 108>>)
    \/ \E p \in {<<49, 50, 55, 46>>, <<49, 48, 46>>, <<49, 57, 50, 46, 49, 54, 56, 46>>, <<48, 46>>} :
          StartsWith(hostname, p)
    \/ \E n \in 16..31 : StartsWith(hostname, <<49, 55, 50, 46>> \o Dec(n) \o <<46>>)
    \/ Includes(hostname, <<58, 58, 49>>)

\* a line matching ^(udp|http|https|wss):// whatever its case
IsTrackerLine(e) ==
    \E p \in {S_UDP, S_HTTP, S_HTTPS, S_WSS} :
        Len(e) >= Len(p) /\ ToLowerCase(SubSeq(e, 1, Len(p))) = p

\* a line is kept: trimmed it is not empty, is no comment and is a tracker line
Kept(line) ==
    LET e == Trim(line) IN e # <<>> /\ e[1] # 35 /\ IsTrackerLine(e)

RECURSIVE LinesFrom(_, _)
\* the lines of the bodies of the fetches i.. of fs that gave a text
LinesFrom(fs, i) ==
    IF i > Len(fs) THEN <<>>
    ELSE (IF fs[i].result.kind = "ok" /\ fs[i].result.text # <<>>
          THEN Split(fs[i].result.text, 10) ELSE <<>>) \o LinesFrom(fs, i + 1)

\* the candidate lines of aggregation request r, in the order of the claim:
\* manual entries, then the fetched bodies in source order
InputLines(r) == manual[r] \o LinesFrom(fetches[r], 1)

\* the candidate lines that are kept, trimmed
Wanted(r) == {Trim(l) : l \in {x \in Range(InputLines(r)) : Kept(x)}}

\* the position at which a kept line first comes in the candidate lines
FirstSeen(r, e) ==
    CHOOSE k \in 1..Len(InputLines(r)) :
        /\ Trim(InputLines(r)[k]) = e
        /\ \A j \in 1..(k - 1) : Trim(InputLines(r)[j]) # e

\* aggregation request r was answered with its tracker list
Aggregated(r) ==
    request[r].endpoint = "raw" /\ pc[r] = "done" /\ response[r].status = 200

\* the outbound fetches request r has made
IssuedFor(r) == {k \in DOMAIN issued : issued[k].req = r}

----------------------------------------------------------------------------
(* C1                                                                      *)

\* C1: decoding the encoding of a configuration gives the configuration
\* back, on the dictionary path and on the bypass path.
C1_RoundTrip ==
    codec.stage = "parsed" => codec.result.ok /\ codec.result.val = codec.config

----------------------------------------------------------------------------
(* C2                                                                      *)

\* C2: no handler ever fetches from a private host, and every handler
\* fetches from the boundary hosts 172.15.0.1 and 172.32.0.1.
C2_NoPrivateFetch ==
    /\ \A k \in DOMAIN issued : ~SpecPrivate(ToLowerCase(issued[k].hostname))
    /\ \A r \in reqs : \A i \in DOMAIN fetches[r] :
          fetches[r][i].url \in BoundaryUrls
             => \E k \in IssuedFor(r) : issued[k].idx = i /\ issued[k].url = fetches[r][i].url

----------------------------------------------------------------------------
(* C3                                                                      *)

\* C3: the tracker set of an answered aggregation request has no duplicate,
\* holds exactly the kept lines of the manual list and the fetched bodies,
\* trimmed, each at the place of its first occurrence, and never holds
\* "ftp://x" or "not a url".
C3_DedupSet ==
    \A r \in reqs :
        Aggregated(r) =>
            LET set == uniqueTrackers[r]
            IN  /\ \A i, j \in DOMAIN set : i # j => set[i] # set[j]
                /\ \A i \in DOMAIN set :
                      /\ set[i] = Trim(set[i])
                      /\ set[i] # <<>>
                      /\ set[i][1] # 35
                      /\ IsTrackerLine(set[i])
                      /\ set[i] \notin {T_FTP, T_TEXT}
                /\ Range(set) = Wanted(r)
                /\ \A i, j \in DOMAIN set :
                      i < j => FirstSeen(r, set[i]) < FirstSeen(r, set[j])

\* an answered request whose manual list and body repeat a tracker and hold
\* lines that are dropped
C3_Witness ==
    \E r \in reqs :
        /\ Aggregated(r)
        /\ manual[r] = <<T_PAD, T_FTP, T_WSS>>
        /\ \E i \in DOMAIN fetches[r] :
              fetches[r][i].result.kind = "ok" /\ fetches[r][i].result.text = BodyB
        /\ uniqueTrackers[r] = <<T_UDP, T_WSS, T_HTTP>>

----------------------------------------------------------------------------
(* C4                                                                      *)

\* a source of aggregation request r never answers and the other sources
\* have all returned, one of them with a text
SlowAndFast(r) ==
    /\ request[r].endpoint = "raw"
    /\ pc[r] = "fetching"
    /\ \E i \in DOMAIN fetches[r] : Silent(fetches[r][i].url) /\ fetches[r][i].st = "headers"
    /\ \A i \in DOMAIN fetches[r] : ~Silent(fetches[r][i].url) => fetches[r][i].st = "settled"
    /\ \E i \in DOMAIN fetches[r] : fetches[r][i].result.kind = "ok"

\* request r is answered at the deadline with the trackers of the manual
\* list and of the sources that answered
AnsweredAtDeadline(r) ==
    /\ Aggregated(r)
    /\ response[r].at = RAW_TIMEOUT_MS
    /\ Range(uniqueTrackers[r]) = Wanted(r)
    /\ \A i \in DOMAIN fetches[r] : Silent(fetches[r][i].url) => fetches[r][i].result.kind = "null"

\* C4: when a source never answers and the others have answered, the
\* request is answered when the deadline of the silent source comes, with
\* the trackers of the sources that answered and of the manual list.
C4_SlowSourceIsolation == \A r \in Handled : SlowAndFast(r) ~> AnsweredAtDeadline(r)

\* the request with one fast and one silent source, answered at the deadline
\* with the fast source's trackers
C4_Witness ==
    \E r \in reqs :
        /\ AnsweredAtDeadline(r)
        /\ sources[r] = <<U_A, U_SLOW>>
        /\ fetches[r][1].result = TextResult(BodyA)
        /\ manual[r] = <<>>
        /\ uniqueTrackers[r] = <<T_UDP, T_WSS>>

----------------------------------------------------------------------------
(* C5                                                                      *)

\* the texts of the two "Too many sources" answers
TooManyTexts == {"# Error: Too many sources (Max 20)", "Too many sources (Limit 20)"}

\* C5: a request of the aggregation endpoint or the batch proxy naming more
\* than 20 sources is answered 400 "Too many sources" with no fetch made,
\* and no request has more than 20 fetches.
C5_TooManySources ==
    \A r \in reqs :
        request[r].endpoint \in {"raw", "batch"} =>
            /\ Len(sources[r]) > 20 =>
                  /\ pc[r] = "done"
                  /\ response[r].status = 400
                  /\ response[r].error \in TooManyTexts
                  /\ fetches[r] = <<>>
                  /\ IssuedFor(r) = {}
            /\ Cardinality(IssuedFor(r)) <= 20
            /\ Cardinality({i \in DOMAIN fetches[r] : fetches[r][i].st # "settled"}) <= 20

\* the aggregation endpoint has refused a configuration of 21 sources
C5_Witness ==
    \E r \in reqs :
        /\ request[r].endpoint = "raw"
        /\ Truthy(request[r].data)
        /\ Len(sources[r]) = 21
        /\ response[r].status = 400
        /\ response[r].error \in TooManyTexts
        /\ issued = <<>>

----------------------------------------------------------------------------
(* C6                                                                      *)

\* C6: in every handler a body longer than MAX_SIZE_BYTES goes on as its
\* first MAX_SIZE_BYTES characters, and no longer text reaches a later
\* stage.  (The one oversized body of the model starts with a tracker, so
\* content validation passes it.)
C6_Truncation ==
    \A r \in reqs : \A i \in DOMAIN fetches[r] :
        /\ StrLen(fetches[r][i].result.text) <= MAX_SIZE_BYTES
        /\ (fetches[r][i].body.has /\ StrLen(fetches[r][i].body.val) > MAX_SIZE_BYTES)
              => /\ fetches[r][i].result.kind = "ok"
                 /\ StrLen(fetches[r][i].result.text) = MAX_SIZE_BYTES
                 /\ fetches[r][i].result.text = Substring0(fetches[r][i].body.val, MAX_SIZE_BYTES)

----------------------------------------------------------------------------
(* C7                                                                      *)

\* dictionary and body of the compressed text at hand
CodecPacked == Packed(codec.json, codec.plan)

\* no marker of the dictionary is left in the text
NoResidual(text, n) ==
    \A k \in DOMAIN text : \A i \in 0..(n - 1) : text[k] # Marker(i)

\* every marker inside an entry is the marker of an entry of lower index
LowerOnly(dictionary) ==
    \A i \in DOMAIN dictionary : \A k \in DOMAIN dictionary[i] :
        \A j \in (i - 1)..(Len(dictionary) - 1) : dictionary[i][k] # Marker(j)

\* decompress has run on a text of the dictionary form
Expanded == codec.stage = "expanded" /\ ~codec.plan.bypass

\* C7 as stated: whatever markers the entries hold, decompress gives the
\* original text back and leaves no marker.
C7_NestedAny ==
    Expanded /\ NoResidual(codec.json, Len(CodecPacked.dictionary))
        => /\ codec.out = codec.json
           /\ NoResidual(codec.out, Len(CodecPacked.dictionary))

\* C7, amended: when every marker inside an entry is the marker of an entry
\* of lower index and the original text holds no marker, decompress gives
\* the original text back and leaves no marker.
C7_NestedLower ==
    Expanded /\ LowerOnly(CodecPacked.dictionary)
             /\ NoResidual(codec.json, Len(CodecPacked.dictionary))
        => /\ codec.out = codec.json
           /\ NoResidual(codec.out, Len(CodecPacked.dictionary))

\* a text expanded from two entries, the second holding the marker of the first
C7_Witness ==
    /\ Expanded
    /\ Len(CodecPacked.dictionary) = 2
    /\ LowerOnly(CodecPacked.dictionary)
    /\ \E k \in DOMAIN CodecPacked.dictionary[2] : CodecPacked.dictionary[2][k] = Marker(0)
    /\ \E k \in DOMAIN CodecPacked.body : CodecPacked.body[k] = Marker(1)
    /\ codec.out = codec.json

----------------------------------------------------------------------------
(* C8                                                                      *)

\* the input of aggregation request r decoded to a Configuration
Decoded(r) ==
    /\ response[r].error \notin {"# Error: Invalid Base64 JSON", "# Error: No config provided"}
    /\ \A k \in DOMAIN sources[r] : IsString(sources[r][k])
    /\ \A k \in DOMAIN manual[r] : IsString(manual[r][k])

\* C8: an aggregation request whose configuration decoded and names at most
\* 20 sources is never answered with a failure, and its answer holds the
\* trackers of the manual list and of the sources that gave a text, each
\* other source adding nothing.
C8_NeverFailsWholesale ==
    \A r \in reqs :
        (request[r].endpoint = "raw" /\ pc[r] = "done" /\ Decoded(r) /\ Len(sources[r]) <= 20)
            => /\ response[r].status = 200
               /\ Range(uniqueTrackers[r]) = Wanted(r)
               /\ EndsWith(response[r].text,
                           Join(uniqueTrackers[r], Separator(useDoubleNewline[r])))
               /\ \A i \in DOMAIN fetches[r] :
                     fetches[r][i].result.kind # "ok"
                        => /\ fetches[r][i].result.kind = "null"
                           /\ fetches[r][i].result.text = <<>>

\* an answer made of one good source while the other failed
C8_Witness ==
    \E r \in reqs :
        /\ Aggregated(r)
        /\ sources[r] = <<U_A, U_B>>
        /\ fetches[r][1].result.kind = "null"
        /\ fetches[r][2].result = TextResult(BodyA)
        /\ uniqueTrackers[r] = <<T_UDP, T_WSS>>

----------------------------------------------------------------------------
(* C9                                                                      *)

\* C9: the map answered by the batch proxy holds one entry for each
\* requested input, under the requested string, with the outcome of that
\* input, and the request itself succeeds.
C9_OneEntryPerInput ==
    \A r \in reqs :
        (request[r].endpoint = "batch" /\ pc[r] = "done"
            /\ Len(sources[r]) >= 1 /\ Len(sources[r]) <= 20)
            => /\ response[r].status = 200
               /\ Cardinality(response[r].map) = Len(sources[r])
               /\ \A i \in DOMAIN fetches[r] :
                     [key |-> sources[r][i], value |-> fetches[r][i].result] \in response[r].map

----------------------------------------------------------------------------
(* C10                                                                     *)

\* C10: the body of a successful aggregation answer is the tracker set
\* joined by "\n\n" when doubleNewline is set and by "\n" otherwise, "\n"
\* always in urls mode, and nothing else.
C10_BodyIsJoinedSet ==
    \A r \in reqs :
        Aggregated(r) =>
            /\ response[r].text = Join(uniqueTrackers[r], Separator(useDoubleNewline[r]))
            /\ Truthy(request[r].urls) /\ ~Truthy(request[r].data) => ~useDoubleNewline[r]

----------------------------------------------------------------------------
(* C11                                                                     *)

\* the header the origin guard looks at: Origin, else Referer, "" when the
\* request carries neither
GuardHeader(q) ==
    IF q.origin.has /\ q.origin.val # <<>> THEN q.origin.val
    ELSE IF q.referer.has THEN q.referer.val
    ELSE <<>>

\* the request carries a header naming neither the handler's own origin nor
\* a localhost literal
ForeignCaller(q) ==
    /\ GuardHeader(q) # <<>>
    /\ \A p \in {OwnOrigin, S_LOCALHOST, S_LOOPBACK} : ~Includes(GuardHeader(q), p)

\* a body passes the content check of the specification on its first n
\* characters: it is blank, or the case-folded prefix holds a tracker scheme
ContentOk(body, n) ==
    LET text == Substring0(body, MAX_SIZE_BYTES)
    IN  \/ Trim(text) = <<>>
        \/ \E p \in {S_UDP, S_HTTP, S_HTTPS, S_WSS} :
              Includes(ToLowerCase(Substring0(text, n)), p)

\* the single-target proxy has answered request r
SingleDone(r) == request[r].endpoint = "single" /\ pc[r] = "done"

\* every failure of request r has the status of its kind
StatusOfKind(r) ==
    LET q         == request[r]
        targetUrl == ParseURL(q.target.val)
        status    == response[r].status
        f         == fetches[r]
    IN  /\ (~Truthy(q.target) \/ ~targetUrl.ok) => status = 400
        /\ (Truthy(q.target) /\ targetUrl.ok
              /\ (\/ ~AllowedProtocol(targetUrl.protocol)
                  \/ SpecPrivate(ToLowerCase(targetUrl.hostname))
                  \/ ForeignCaller(q))) => status = 403
        /\ (f # <<>> /\ f[1].result.kind = "status") => status = 502
        /\ (f # <<>> /\ f[1].result = ErrorResult("Upstream Timeout")) => status = 504
        /\ (f # <<>> /\ f[1].body.has /\ ~ContentOk(f[1].body.val, 1000)) => status = 422
        /\ (f # <<>> /\ f[1].result = ErrorResult("Proxy Error")) => status = 500
        /\ status = 200 =>
              /\ f # <<>> /\ f[1].body.has
              /\ response[r].text = Substring0(f[1].body.val, MAX_SIZE_BYTES)
        /\ status # 200 => response[r].text = <<>>

\* the upstream of request r advertised a length above the cap
Advertised(r) ==
    fetches[r] # <<>> /\ fetches[r][1].result = ErrorResult("File too large (Header Check)")

\* C11 as stated: every failure of the single-target proxy has the status
\* of its kind, and every answer is the body with status 200 or an error
\* with one of the statuses 400, 403, 422, 500, 502, 504.
C11_StatusOfKind ==
    \A r \in reqs :
        SingleDone(r) =>
            /\ StatusOfKind(r)
            /\ response[r].status \in {200, 400, 403, 422, 500, 502, 504}

\* C11, amended: every failure of the single-target proxy has the status of
\* its kind, an advertised Content-Length above the cap being answered 413,
\* and every answer is the body with status 200 or an error with one of the
\* statuses 400, 403, 413, 422, 500, 502, 504.
C11_StatusOfKindOr413 ==
    \A r \in reqs :
        SingleDone(r) =>
            /\ StatusOfKind(r)
            /\ Advertised(r) <=> response[r].status = 413
            /\ response[r].status \in {200, 400, 403, 413, 422, 500, 502, 504}

\* the upstream advertised a length above the cap and was answered 413
\* without its body being read
C11_Witness ==
    \E r \in reqs :
        /\ SingleDone(r)
        /\ Advertised(r)
        /\ ~fetches[r][1].body.has
        /\ response[r].status = 413

----------------------------------------------------------------------------
(* C12                                                                     *)

\* request r waits for its fetches
Fetching(r) == pc[r] = "fetching"

\* request r is answered, no later than the deadline of any of its fetches
AnsweredInTime(r) ==
    /\ pc[r] = "done"
    /\ \A i \in DOMAIN fetches[r] :
          fetches[r][i].deadline # 0 => response[r].at <= fetches[r][i].deadline

\* C12: in all three handlers a request waiting for its fetches is answered
\* by the deadline of its fetches, whether the upstream never answers or
\* answers with headers and then stalls while the body is read.
C12_BoundedFetch == \A r \in Handled : Fetching(r) ~> AnsweredInTime(r)

----------------------------------------------------------------------------
(* C13                                                                     *)

\* C13: a body read by the batch proxy is accepted exactly when it is blank
\* or its case-folded first 500 characters hold one of udp://, http://,
\* https://, wss://, and is "Invalid Content" otherwise; a body read by the
\* single-target proxy is answered 200 exactly when it is blank or its
\* case-folded first 1000 characters hold one of them, and 422 otherwise.
C13_ContentCheck ==
    \A r \in reqs : \A i \in DOMAIN fetches[r] :
        fetches[r][i].body.has =>
            /\ request[r].endpoint = "batch" =>
                  IF ContentOk(fetches[r][i].body.val, 500)
                  THEN fetches[r][i].result.kind = "ok"
                  ELSE fetches[r][i].result = ErrorResult("Invalid Content")
            /\ request[r].endpoint = "single" =>
                  IF ContentOk(fetches[r][i].body.val, 1000)
                  THEN response[r].status = 200
                  ELSE response[r].status = 422

----------------------------------------------------------------------------
(* C14                                                                     *)

RECURSIVE InOrder(_)
\* the kept lines of a list of lines, trimmed, each once, at the place of
\* its first occurrence
InOrder(lines) ==
    IF lines = <<>> THEN <<>>
    ELSE LET front == InOrder(SubSeq(lines, 1, Len(lines) - 1))
             e     == Trim(lines[Len(lines)])
         IN  IF Kept(lines[Len(lines)]) /\ e \notin Range(front)
             THEN Append(front, e) ELSE front

\* C14: whatever the order in which the fetches of an aggregation request
\* completed, its tracker set is the kept lines of the manual list, in the
\* given order, followed by those of the fetched bodies in source order.
C14_SourceOrder ==
    \A r \in reqs : Aggregated(r) => uniqueTrackers[r] = InOrder(InputLines(r))

\* two sources of which the second completed first, the trackers of the
\* first source coming first all the same
C14_Witness ==
    \E r \in reqs :
        /\ Aggregated(r)
        /\ sources[r] = <<U_A, U_B>>
        /\ manual[r] = <<>>
        /\ fetches[r][2].ord < fetches[r][1].ord
        /\ fetches[r][1].result = TextResult(BodyB)
        /\ fetches[r][2].result = TextResult(BodyA)
        /\ uniqueTrackers[r] = <<T_UDP, T_HTTP, T_WSS>>

----------------------------------------------------------------------------
(* C15                                                                     *)

\* C15: an aggregation request with a 'data' payload is answered 400
\* "# Error: Invalid Base64 JSON", or its payload decoded to lists of
\* strings and a boolean and the request is answered with its tracker list
\* or refused for its number of sources; no payload is answered otherwise.
C15_DecodeTotality ==
    \A r \in reqs :
        (request[r].endpoint = "raw" /\ Truthy(request[r].data) /\ pc[r] = "done") =>
            \/ /\ response[r].status = 400
               /\ response[r].error = "# Error: Invalid Base64 JSON"
            \/ /\ \A k \in DOMAIN sources[r] : IsString(sources[r][k])
               /\ \A k \in DOMAIN manual[r] : IsString(manual[r][k])
               /\ useDoubleNewline[r] \in BOOLEAN
               /\ \/ response[r].status = 200
                  \/ response[r].status = 400 /\ response[r].error \in TooManyTexts

----------------------------------------------------------------------------
(* C16                                                                     *)

\* a text of Latin-1 characters
Latin1(text) == \A k \in DOMAIN text : text[k] >= 0 /\ text[k] <= 255

\* C16: a JSON text of Latin-1 characters sent in the bypass form, Base64 of
\* 0xFF followed by the text, comes out of Base64 decoding, escape
\* restoration and decompress as that text.
C16_Bypass ==
    (codec.plan.bypass /\ codec.stage = "jsonOut" /\ Latin1(codec.json))
        => codec.out = codec.json

----------------------------------------------------------------------------
(* C17                                                                     *)

\* a step merges into the tracker set or the response map of request r
Merges(r) ==
    \/ uniqueTrackers'[r] # uniqueTrackers[r]
    \/ response'[r].map # response[r].map

\* C17: in the aggregation endpoint and the batch proxy a step that merges
\* into the tracker set or the response map of a request is taken when every
\* fetch of the request has completed, been aborted or failed, and settles
\* no fetch itself.
C17_MergeAfterJoin ==
    [][\A r \in reqs : Merges(r) => AllSettled(r) /\ fetches'[r] = fetches[r]]_vars

\* two sources that completed one after the other, merged into the set of
\* an answered request
C17_Witness ==
    \E r \in reqs :
        /\ Aggregated(r)
        /\ Len(fetches[r]) = 2
        /\ {fetches[r][1].ord, fetches[r][2].ord} = {1, 2}
        /\ fetches[r][1].result.kind = "ok" /\ fetches[r][2].result.kind = "ok"
        /\ Len(uniqueTrackers[r]) = 3

----------------------------------------------------------------------------
(* C18                                                                     *)

\* the target of request q passes the validation that comes before the
\* origin guard: it is there, parses, has an allowed scheme and a public host
Admissible(q) ==
    LET targetUrl == ParseURL(q.target.val)
    IN  /\ Truthy(q.target)
        /\ targetUrl.ok
        /\ AllowedProtocol(targetUrl.protocol)
        /\ ~SpecPrivate(ToLowerCase(targetUrl.hostname))

\* request r was answered 403 by the origin guard
GuardRefused(r) ==
    /\ pc[r] = "done"
    /\ response[r].status = 403
    /\ response[r].error = "Unauthorized Proxy Usage"

\* C18: a request to the single-target proxy whose Origin or Referer header
\* holds neither the handler's own origin nor a localhost literal causes no
\* outbound fetch and is refused, with 403 by the origin guard when its
\* target reaches the guard; a request with neither header, or whose header
\* holds the own origin or a localhost literal, passes the guard and its
\* target is fetched.
C18_OriginGuard ==
    \A r \in reqs :
        (request[r].endpoint = "single" /\ pc[r] # "start") =>
            IF ForeignCaller(request[r])
            THEN /\ IssuedFor(r) = {}
                 /\ fetches[r] = <<>>
                 /\ pc[r] = "done"
                 /\ response[r].status \in {400, 403}
                 /\ Admissible(request[r]) => GuardRefused(r)
            ELSE /\ ~GuardRefused(r)
                 /\ Admissible(request[r]) => Cardinality(IssuedFor(r)) = 1

\* a request naming a public target under a foreign Referer, refused by the
\* guard with no fetch made
C18_Witness ==
    \E r \in reqs :
        /\ request[r].endpoint = "single"
        /\ request[r].target = Given(U_A)
        /\ request[r].origin = Absent
        /\ request[r].referer = Given(H_EVIL)
        /\ GuardRefused(r)
        /\ issued = <<>>

----------------------------------------------------------------------------
(* C19                                                                     *)

\* the outbound fetches made for target i of request r, in the sequence fs
FetchesFor(fs, r, i) == {k \in DOMAIN fs : fs[k].req = r /\ fs[k].idx = i}

\* C19: in every handler each requested target has one callback, for which
\* at most one outbound fetch is ever made; the outcome of a target, once
\* it is there, never changes, whatever it is; and an answered request has
\* an outcome for each target it took up.
C19_NoRetries ==
    [][\A r \in reqs :
          /\ fetches'[r] # <<>> => Len(fetches'[r]) = Len(sources'[r])
          /\ \A i \in DOMAIN fetches'[r] :
                /\ Cardinality(FetchesFor(issued', r, i)) <= 1
                /\ fetches'[r][i].url = sources'[r][i]
                /\ (pc'[r] = "done" /\ request[r].endpoint \in {"raw", "batch"})
                      => fetches'[r][i].result # NoResult
          /\ \A i \in DOMAIN fetches[r] :
                /\ FetchesFor(issued, r, i) = FetchesFor(issued', r, i)
                /\ fetches[r][i].st = "settled" =>
                      /\ fetches'[r][i].st = "settled"
                      /\ fetches'[r][i].result = fetches[r][i].result
                      /\ fetches[r][i].result # NoResult
          /\ (request[r].endpoint = "single" /\ pc'[r] = "done" /\ fetches'[r] # <<>>)
                => fetches'[r][1].st = "settled"
      ]_vars

\* an answered request of two sources, one refused by its upstream and one
\* aborted at the deadline, each fetched once
C19_Witness ==
    \E r \in reqs :
        /\ Aggregated(r)
        /\ sources[r] = <<U_A, U_SLOW>>
        /\ fetches[r][1].result = NullResult /\ fetches[r][1].timer = "cleared"
        /\ fetches[r][2].result = NullResult /\ fetches[r][2].timer = "fired"
        /\ Len(issued) = 2
        /\ issued[1].idx = 1 /\ issued[2].idx = 2

----------------------------------------------------------------------------
(* C20                                                                     *)

\* the handler-local state of request r
Locals(r) ==
    <<request[r], pc[r], sources[r], manual[r], useDoubleNewline[r], debugLogs[r],
      fetches[r], uniqueTrackers[r], response[r]>>

\* a step leaves the state of every request but one as it is
OneAtATime == \E r \in reqs : \A o \in reqs \ {r} : Locals(o)' = Locals(o)

\* the step in which the handler of request r starts takes the sources, the
\* manual list and the separator from the input of r
TakesOwnInput(r) ==
    (pc[r] = "start" /\ pc'[r] # "start") =>
        /\ request[r].endpoint = "raw" =>
              \E cfg \in {RawConfig(request[r])} :
                  IF cfg.error # ""
                  THEN response'[r].error = cfg.error /\ fetches'[r] = <<>>
                  ELSE /\ sources'[r] = cfg.sources
                       /\ manual'[r] = cfg.manual
                       /\ useDoubleNewline'[r] = cfg.useDoubleNewline
        /\ request[r].endpoint = "batch" =>
              \E targets \in {BatchTargets(request[r])} :
                  fetches'[r] = <<>> \/ sources'[r] = targets.val
        /\ request[r].endpoint = "single" =>
              (fetches'[r] = <<>> \/ sources'[r] = <<request[r].target.val>>)

\* a request keeps its input, fetches its own targets, and its answer, once
\* given, stays
KeepsOwnInput(r) ==
    /\ request'[r] = request[r]
    /\ pc[r] # "start" =>
          /\ sources'[r] = sources[r]
          /\ manual'[r] = manual[r]
          /\ useDoubleNewline'[r] = useDoubleNewline[r]
    /\ \A i \in DOMAIN fetches'[r] : fetches'[r][i].url = sources'[r][i]
    /\ \A k \in DOMAIN issued' : issued'[k].req = r => issued'[k].url = sources'[r][issued'[k].idx]
    /\ pc[r] = "done" =>
          /\ response'[r] = response[r]
          /\ uniqueTrackers'[r] = uniqueTrackers[r]
          /\ debugLogs'[r] = debugLogs[r]

\* the step in which request r is answered with success makes the answer of
\* the input of r and the outcomes of the fetches of r
GivesOwnAnswer(r) ==
    (pc[r] # "done" /\ pc'[r] = "done" /\ response'[r].status = 200) =>
        /\ request[r].endpoint = "raw" =>
              /\ uniqueTrackers'[r] = InOrder(manual[r] \o LinesFrom(fetches'[r], 1))
              /\ response'[r].text = ResponseText(uniqueTrackers'[r], useDoubleNewline[r],
                                                  debugLogs'[r])
              /\ DEBUG => debugLogs'[r][1] = DbgRequestUrl(request[r].url)
        /\ request[r].endpoint = "batch" =>
              /\ response'[r].map # {}
              /\ response'[r].map \subseteq
                    {[key |-> fetches'[r][i].url, value |-> fetches'[r][i].result] :
                        i \in DOMAIN fetches'[r]}
        /\ request[r].endpoint = "single" =>
              /\ fetches'[r][1].body.has
              /\ response'[r].text = Substring0(fetches'[r][1].body.val, MAX_SIZE_BYTES)

\* C20: with two requests in flight, in any interleaving, a step changes
\* the state of one request only, each request takes its configuration from
\* its own input and fetches its own targets, and its answer is made of its
\* own input and the outcomes of its own fetches and never changes after.
C20_Independence ==
    [][/\ OneAtATime
       /\ \A r \in reqs : TakesOwnInput(r) /\ KeepsOwnInput(r) /\ GivesOwnAnswer(r)]_vars

\* two aggregation requests of which the second started and was answered
\* while the first waited for its source: each answer holds the trackers of
\* its own request and none of the other's
C20_Witness ==
    /\ reqs = Pair
    /\ Aggregated(1) /\ Aggregated(2)
    /\ Truthy(request[1].data) /\ Truthy(request[2].urls)
    /\ fetches[1][1].id = 1 /\ fetches[2][1].id = 2
    /\ response[2].at = 0 /\ response[1].at = RAW_TIMEOUT_MS
    /\ fetches[2][1].result = TextResult(BodyHttps)
    /\ uniqueTrackers[2] = <<T_HTTPS>>
    /\ uniqueTrackers[1] = <<T_UDP, T_WSS>>

====
